---- MODULE Spec2Model ----
(***************************************************************************)
(* Model of the Playwright REPL extension: the panel's session runner      *)
(* (Run / Stop / Step over the editor buffer), the in-page recorder with   *)
(* its debounced fill, and the background worker's page commands.          *)
(***************************************************************************)
EXTENDS Integers, Sequences, FiniteSets, TLC

(***************************************************************************)
(* Bounds                                                                  *)
(***************************************************************************)
MaxLines == 2      \* longest editor buffer of the interleaving model
MaxTasks == 2      \* most handler activations suspended at once
MaxEqLines == 3    \* longest script of the run/step comparison
MaxEmit == 3       \* most commands the recorder sends in one behaviour
MaxEdits == 1      \* most edits of the editor buffer in one behaviour
MaxPending == 1    \* most handler activations suspended at once when stepping
MaxWaits == 2      \* most navigation commands issued in one behaviour
MaxHistory == 2     \* most entries of the tab's navigation history
MaxCommands == 2    \* most commands handled in one behaviour of SpecForm
MaxChars == 5       \* longest raw line handed to the parser
MaxExport == 3      \* most lines of an exported script
MaxAx == 3          \* most nodes of an accessibility tree handed to the formatter
MaxStarts == 2      \* most start requests one lifetime of the worker handles
MaxActions == 2     \* most user actions on the page while a recording is observed
MaxPorts == 2       \* most ports the panel opens to the worker
MaxQuoted == 3      \* longest text the recorder puts between quotes

(***************************************************************************)
(* Session runner (panel/panel.js)                                         *)
(***************************************************************************)
VARIABLES
  panel,      \* the panel's run/step state and its suspended handlers
  outcome,    \* the transport's result for the command of each line index
  panelR,     \* a second panel, used to run a script to completion
  panelS,     \* a third panel, used to single-step the same script
  clicks      \* Run clicks made on panelR and Step clicks made on panelS

equivVars == <<outcome, panelR, panelS, clicks>>

\* In-page recorder (content/recorder.js, injected into the inspected page)
VARIABLES
  rec,        \* __pwRecorderActive, the registered listeners, fillTimer/fillTarget/fillValue,
              \* and whether the debounce timeout is still scheduled
  emitted,    \* the commands handed to send(), oldest first
  lastEvent,  \* the event the page delivered last: its kind, element or key, and value,
              \* and whether its handler let an exception out to the page
  cbChecked   \* the checked state of the page's checkbox

recVars == <<rec, emitted, lastEvent, cbChecked>>

\* Background worker (background.js) and the inspected page
VARIABLES
  page,       \* the page: its elements in document order and its viewport override
  bg,         \* handleCommand: the command, where it is suspended, its CDP calls, its Result
  snap        \* for each ref of the last snapshot, the element its node stands for

bgVars == <<page, bg, snap>>

\* Navigation commands of the background worker and their bounded load wait
VARIABLES
  nav         \* the command, where it is suspended, the tab's history, waitForLoad's state

\* The pure library functions (lib/converter.js, lib/commands.js, lib/formatter.js)
VARIABLES
  lib         \* the function applied last, its input and its value

\* Recording sessions of the background worker (background.js), with the
\* browser's debugger session, the page's recorder and the panel's port
VARIABLES
  tab         \* recordingTabs/attachedTabs/panelPorts for the inspected tab, the listeners on
              \* chrome.debugger.onEvent, each handler's position, the browser's session and
              \* scripts, the page's active flag and whether a fill is pending in its
              \* recorder, the panel's port (and how many it has
              \* opened), button and editor lines, and the user's actions so far

\* the variables outside each component
notSess == <<recVars, bgVars, nav, lib, tab>>
notRec == <<panel, equivVars, bgVars, nav, lib, tab>>
notBg == <<panel, equivVars, recVars, nav, lib, tab>>
notNav == <<panel, equivVars, recVars, bgVars, lib, tab>>
notLib == <<panel, equivVars, recVars, bgVars, nav, tab>>
notTab == <<panel, equivVars, recVars, bgVars, nav, lib>>

\* the panel is open and connected; nothing is recorded and no debugger is attached
IdleTab ==
  [recordingTabs |-> 0, attachedTabs |-> FALSE, panelPorts |-> TRUE, onEvent |-> {},
   starts |-> [k \in 1..MaxStarts |-> "none"], stop |-> "idle", stopRec |-> 0,
   session |-> FALSE, scripts |-> {}, active |-> FALSE, pending |-> FALSE,
   port |-> "open", ports |-> 1, btn |-> FALSE, editor |-> <<>>, acts |-> 0]

TabIdle == tab = IdleTab

LineKinds == {"cmd", "comment", "blank"}
\* result.type of the transport's answer; "none" is a missing answer, "throw" a
\* rejected sendMessage, "other" any type the switch does not name
ResultTypes == {"success", "error", "info", "snapshot", "screenshot", "other", "none", "throw"}
\* the results a script's lines are given when two executions are compared
FixedResults == {"success", "error", "throw"}
PassTypes == {"success", "info", "snapshot", "screenshot", "other"}

SeqsUpTo(S, n) == UNION {[1..k -> S] : k \in 1..n}
Scripts == SeqsUpTo(LineKinds, MaxLines)
EqScripts == SeqsUpTo(LineKinds, MaxEqLines)
MaxIndex == IF MaxLines > MaxEqLines THEN MaxLines ELSE MaxEqLines
Indices == (-1)..(MaxIndex - 1)

\* content.trim() is non-empty
HasContent(lines) == \E j \in 1..Len(lines) : lines[j] # "blank"

\* new Array(n).fill(null)
NewArray(n) == [i \in Indices |-> IF 0 <= i /\ i < n THEN "null" ELSE "undef"]
\* []
EmptyArray == [i \in Indices |-> "undef"]

FreshPanel(lines) ==
  [editor |-> lines, isRunning |-> FALSE, currentRunLine |-> -1,
   runPassCount |-> 0, runFailCount |-> 0, lineResults |-> EmptyArray,
   stepLine |-> -1, stepDisabled |-> FALSE, tasks |-> <<>>,
   edited |-> FALSE, edits |-> 0, said |-> "", runFrom |-> 0]

\* a findNextExecutableLine that returns the cursor's own line, whatever it holds
findLineAtCursor(startFrom, lines) ==
  IF startFrom >= Len(lines) THEN -1 ELSE startFrom

\* a findNextExecutableLine that takes comment lines for executable ones
RECURSIVE findNextNonBlankLine(_, _)
findNextNonBlankLine(startFrom, lines) ==
  IF startFrom >= Len(lines) THEN -1
  ELSE IF lines[startFrom + 1] # "blank" THEN startFrom
  ELSE findNextNonBlankLine(startFrom + 1, lines)

RECURSIVE findNextExecutableLine(_, _)
findNextExecutableLine(startFrom, lines) ==
  IF startFrom >= Len(lines) THEN -1
  ELSE IF lines[startFrom + 1] = "cmd" THEN startFrom
  ELSE findNextExecutableLine(startFrom + 1, lines)

\* the part of executeCommandForRun that runs once the transport has answered
executeCommandForRun(p, res) ==
  IF res \in PassTypes
  THEN [p EXCEPT !.lineResults[p.currentRunLine] = "pass",
                 !.runPassCount = p.runPassCount + 1]
  ELSE [p EXCEPT !.lineResults[p.currentRunLine] = "fail",
                 !.runFailCount = p.runFailCount + 1]

RemoveAt(s, k) == [j \in 1..(Len(s) - 1) |-> IF j < k THEN s[j] ELSE s[j + 1]]

\* put the run handler's activation k to sleep at line i (k = 0: a new activation)
Suspend(p, k, lines, i, pc) ==
  IF k = 0
  THEN [p EXCEPT !.tasks = Append(p.tasks,
          [kind |-> "run", line |-> i, pc |-> pc, lines |-> lines, stopped |-> FALSE])]
  ELSE [p EXCEPT !.tasks[k].line = i, !.tasks[k].pc = pc]

\* the statements after the run handler's for loop
RunEnd(p, k) ==
  [p EXCEPT !.isRunning = FALSE, !.stepDisabled = FALSE,
            !.currentRunLine = -1, !.stepLine = -1, !.said = "Run complete.",
            !.tasks = IF k = 0 THEN p.tasks ELSE RemoveAt(p.tasks, k)]

\* the run handler's for loop, entered at index i, up to its next await
RECURSIVE RunLoop(_, _, _, _)
RunLoop(p, k, lines, i) ==
  IF i >= Len(lines) THEN RunEnd(p, k)
  ELSE IF ~p.isRunning THEN RunEnd(p, k)
  ELSE IF lines[i + 1] = "blank" THEN RunLoop(p, k, lines, i + 1)
  ELSE IF lines[i + 1] = "comment"
       THEN Suspend([p EXCEPT !.currentRunLine = i], k, lines, i, "delay")
  ELSE Suspend([p EXCEPT !.currentRunLine = i], k, lines, i, "cmd")

\* runBtn click handler, up to its first await
RunClickP(p0) ==
  LET p == [p0 EXCEPT !.edited = FALSE, !.said = ""] IN
  IF p.isRunning
  THEN [p EXCEPT !.isRunning = FALSE, !.currentRunLine = -1, !.said = "Run stopped.",
                 !.tasks = [j \in 1..Len(p.tasks) |->
                    IF p.tasks[j].kind = "run"
                    THEN [p.tasks[j] EXCEPT !.stopped = TRUE] ELSE p.tasks[j]]]
  ELSE IF ~HasContent(p.editor) THEN [p EXCEPT !.said = "Editor is empty."]
  ELSE LET lines == p.editor
           startLine == IF p.stepLine > 0 THEN p.stepLine ELSE 0
           p1 == [p EXCEPT !.isRunning = TRUE, !.stepDisabled = TRUE, !.runFrom = startLine,
                           !.said = IF startLine > 0 THEN "Continuing run from step..."
                                    ELSE "Running script..."]
           p2 == IF startLine = 0
                 THEN [p1 EXCEPT !.runPassCount = 0, !.runFailCount = 0,
                                 !.lineResults = NewArray(Len(lines))]
                 ELSE p1
       IN RunLoop(p2, 0, lines, startLine)

\* the run handler resumes when the transport answers the command of task k
RunResponseP(p, k, res) ==
  LET t == p.tasks[k]
      p1 == executeCommandForRun([p EXCEPT !.said = ""], res)
  IN IF p1.isRunning THEN Suspend(p1, k, t.lines, t.line, "delay")
     ELSE RunLoop(p1, k, t.lines, t.line + 1)

\* the run handler resumes when the 300 ms settle delay of task k elapses
RunDelayP(p, k) ==
  LET t == p.tasks[k] IN RunLoop([p EXCEPT !.said = ""], k, t.lines, t.line + 1)

\* stepBtn click handler, up to its await
StepClickP(p0) ==
  LET p == [p0 EXCEPT !.edited = FALSE, !.said = ""] IN
  IF p.isRunning THEN p
  ELSE IF ~HasContent(p.editor) THEN [p EXCEPT !.said = "Editor is empty."]
  ELSE LET lines == p.editor
           p1 == IF p.stepLine = -1
                 THEN [p EXCEPT !.stepLine = 0, !.lineResults = NewArray(Len(lines)),
                                !.runPassCount = 0, !.runFailCount = 0]
                 ELSE p
           nextLine == findNextExecutableLine(p1.stepLine, lines)
       IN IF nextLine = -1
          THEN [p1 EXCEPT !.stepLine = -1, !.currentRunLine = -1,
                          !.said = "Step complete. No more lines to execute."]
          ELSE [p1 EXCEPT !.stepDisabled = TRUE, !.currentRunLine = nextLine,
                          !.tasks = Append(p1.tasks,
                             [kind |-> "step", line |-> nextLine, pc |-> "cmd",
                              lines |-> lines, stopped |-> FALSE])]

\* a step handler that leaves the cursor past the last line it executed
StepResponsePNoLookAhead(p, k, res) ==
  LET t == p.tasks[k]
      p1 == executeCommandForRun([p EXCEPT !.said = ""], res)
  IN [p1 EXCEPT !.stepLine = t.line + 1, !.currentRunLine = t.line,
                !.stepDisabled = FALSE, !.tasks = RemoveAt(p1.tasks, k)]

\* the step handler resumes when the transport answers the command of task k
StepResponseP(p, k, res) ==
  LET t == p.tasks[k]
      p1 == executeCommandForRun([p EXCEPT !.said = ""], res)
      p2 == [p1 EXCEPT !.stepLine = t.line + 1, !.currentRunLine = t.line,
                       !.stepDisabled = FALSE, !.tasks = RemoveAt(p1.tasks, k)]
  IN IF findNextExecutableLine(p2.stepLine, t.lines) = -1
     THEN [p2 EXCEPT !.stepLine = -1, !.currentRunLine = -1,
                     !.said = "Step complete. All lines executed."]
     ELSE p2

\* the editor's input listener, for an edit that leaves the buffer as lines;
\* edited records that no Run or Step click has followed the edit
EditP(p, lines) ==
  [p EXCEPT !.editor = lines, !.stepLine = -1, !.currentRunLine = -1,
            !.lineResults = EmptyArray, !.edited = TRUE, !.edits = p.edits + 1,
            !.said = ""]

InFlight(p) == {k \in 1..Len(p.tasks) : p.tasks[k].pc = "cmd"}

(***************************************************************************)
(* Actions of the session runner                                           *)
(***************************************************************************)
RunClick ==
  /\ Len(panel.tasks) < MaxTasks \/ panel.isRunning
  /\ panel' = RunClickP(panel)
  /\ UNCHANGED <<equivVars, notSess>>

StepClick ==
  /\ ~panel.stepDisabled
  /\ Len(panel.tasks) < MaxTasks
  /\ panel' = StepClickP(panel)
  /\ UNCHANGED <<equivVars, notSess>>

RunResponse ==
  \E k \in InFlight(panel) :
    /\ panel.tasks[k].kind = "run"
    /\ \E res \in ResultTypes : panel' = RunResponseP(panel, k, res)
    /\ UNCHANGED <<equivVars, notSess>>

RunDelay ==
  \E k \in 1..Len(panel.tasks) :
    /\ panel.tasks[k].kind = "run"
    /\ panel.tasks[k].pc = "delay"
    /\ panel' = RunDelayP(panel, k)
    /\ UNCHANGED <<equivVars, notSess>>

StepResponse ==
  \E k \in InFlight(panel) :
    /\ panel.tasks[k].kind = "step"
    /\ \E res \in ResultTypes : panel' = StepResponseP(panel, k, res)
    /\ UNCHANGED <<equivVars, notSess>>

Edit ==
  /\ panel.edits < MaxEdits
  /\ \E lines \in Scripts : panel' = EditP(panel, lines)
  /\ UNCHANGED <<equivVars, notSess>>

SessIdle == panel = FreshPanel(<<"blank">>)

EquivIdle ==
  /\ outcome = [i \in 0..(MaxEqLines - 1) |-> "success"]
  /\ panelR = FreshPanel(<<"blank">>)
  /\ panelS = FreshPanel(<<"blank">>)
  /\ clicks = [run |-> 0, step |-> 0]

\* a parsed command line
Cmd(name) == [name |-> name, target |-> <<>>, scope |-> <<>>, ref |-> 0, full |-> FALSE]
NoResult == [success |-> FALSE, type |-> "none", data |-> ""]
IdleWorker ==
  [cmd |-> Cmd("snapshot"), pc |-> "idle", attached |-> FALSE, issued |-> <<>>,
   result |-> NoResult, el |-> 0, clicks |-> 0]

\* the worker before any navigation command, on a tab with the given history
IdleNav(index, entries) ==
  [cmd |-> "goto", pc |-> "idle", attached |-> FALSE, result |-> NoResult,
   index |-> index, entries |-> entries,
   timer |-> FALSE, listening |-> FALSE, resolved |-> FALSE, resolves |-> 0,
   stale |-> 0, waits |-> 0, seen |-> 0]

\* no library function applied yet
LibIdle == lib = [fn |-> "none", input |-> <<>>, out |-> <<>>]

BgIdle ==
  /\ page = [nodes |-> <<>>, override |-> FALSE]
  /\ bg = IdleWorker
  /\ snap = <<>>
  /\ nav = IdleNav(0, 1)

RecIdle ==
  /\ rec = [active |-> FALSE, listening |-> FALSE, fillTimer |-> FALSE, scheduled |-> FALSE,
            fillTarget |-> "null", fillValue |-> ""]
  /\ emitted = <<>>
  /\ lastEvent = [kind |-> "none", el |-> "null", value |-> "", threw |-> FALSE]
  /\ cbChecked = FALSE

Init ==
  /\ LibIdle
  /\ \E s \in Scripts : panel = FreshPanel(s)
  /\ EquivIdle
  /\ RecIdle
  /\ TabIdle
  /\ BgIdle

Next == RunClick \/ StepClick \/ RunResponse \/ RunDelay \/ StepResponse

vars == <<panel, outcome, panelR, panelS, clicks, rec, emitted, lastEvent, cbChecked,
          page, bg, snap, nav, lib, tab>>

Spec == Init /\ [][Next]_vars

\* the session of a user who steps through the buffer and runs it, with at
\* most MaxPending handler activations suspended at a time
StepRunClick ==
  /\ Len(panel.tasks) < MaxPending \/ panel.isRunning
  /\ panel' = RunClickP(panel)
  /\ UNCHANGED <<equivVars, notSess>>

StepStepClick ==
  /\ ~panel.stepDisabled
  /\ Len(panel.tasks) < MaxPending
  /\ panel' = StepClickP(panel)
  /\ UNCHANGED <<equivVars, notSess>>

NextStep == StepRunClick \/ StepStepClick \/ RunResponse \/ RunDelay \/ StepResponse
SpecStep == Init /\ [][NextStep]_vars

\* the session with the user editing the buffer between and during commands
NextEdit == Next \/ Edit
SpecEdit == Init /\ [][NextEdit]_vars

\* clearConsole: the console's clear button and the `clear` command
clearConsole(p) == [p EXCEPT !.runPassCount = 0, !.runFailCount = 0, !.said = ""]

ConsoleClear ==
  /\ panel' = clearConsole(panel)
  /\ UNCHANGED <<equivVars, notSess>>

\* the session with buffer edits and console clears between and during commands
NextConsole == NextEdit \/ ConsoleClear
SpecConsole == Init /\ [][NextConsole]_vars

\* appendToEditor: a recorded command arrives from the background; a buffer
\* that is empty or ends with a line break takes the text on its last line,
\* any other buffer gets a line break first
appendToEditor(p, endsWithBreak) ==
  [p EXCEPT !.editor = IF endsWithBreak THEN SubSeq(p.editor, 1, Len(p.editor) - 1) \o <<"cmd">>
                       ELSE p.editor \o <<"cmd">>]

\* the listener of the panel's port, for a recorded-command message
AppendRecorded ==
  /\ panel.edits < MaxEdits
  /\ \E endsWithBreak \in BOOLEAN :
       /\ endsWithBreak => (Len(panel.editor) > 0 /\ panel.editor[Len(panel.editor)] = "blank")
       /\ ~endsWithBreak => Len(panel.editor) < MaxLines
       /\ panel' = [appendToEditor(panel, endsWithBreak) EXCEPT !.edits = panel.edits + 1]
  /\ UNCHANGED <<equivVars, notSess>>

\* reader.onload of the Open button: the file's text replaces the buffer
openFile(p, lines) ==
  [p EXCEPT !.editor = lines, !.lineResults = EmptyArray, !.said = "Opened"]

OpenFile ==
  /\ panel.edits < MaxEdits
  /\ \E lines \in Scripts : panel' = [openFile(panel, lines) EXCEPT !.edits = panel.edits + 1]
  /\ UNCHANGED <<equivVars, notSess>>

\* the session with every route that changes the buffer
NextBuffer == NextEdit \/ AppendRecorded \/ OpenFile
SpecBuffer == Init /\ [][NextBuffer]_vars

(***************************************************************************)
(* The inspected page: elements of document.body in document order.  Text  *)
(* is a sequence of tokens; " " is white space, a capitalised token is the *)
(* upper-case spelling of the lower-case one.                              *)
(***************************************************************************)
El(tag, parent, text) ==
  [tag |-> tag, parent |-> parent, text |-> text, type |-> "", value |-> <<>>,
   placeholder |-> <<>>, ariaLabel |-> <<>>, title |-> <<>>, role |-> "",
   id |-> "", htmlFor |-> "", checked |-> FALSE, disabled |-> FALSE]

\* String.prototype.toLowerCase
toLowerCase(t) ==
  [k \in 1..Len(t) |-> CASE t[k] = "Delete" -> "delete"
                         [] t[k] = "Accept" -> "accept"
                         [] t[k] = "Milk" -> "milk"
                         [] t[k] = "B" -> "b"
                         [] t[k] = "GOTO" -> "goto"
                         [] OTHER -> t[k]]

\* String.prototype.trim
RECURSIVE trim(_)
trim(t) ==
  IF t = <<>> THEN t
  ELSE IF Head(t) \in {" ", "\t"} THEN trim(Tail(t))
  ELSE IF t[Len(t)] \in {" ", "\t"} THEN trim(SubSeq(t, 1, Len(t) - 1))
  ELSE t

\* String.prototype.includes
includes(t, sub) ==
  \E k \in 0..(Len(t) - Len(sub)) : SubSeq(t, k + 1, k + Len(sub)) = sub

\* function matches(s) { return s && s.trim().toLowerCase() === lower; }
matches(s, lower) == s # <<>> /\ toLowerCase(trim(s)) = lower

\* i lies inside root; root 0 is the document
RECURSIVE IsInside(_, _, _)
IsInside(nodes, i, root) ==
  IF root = 0 THEN TRUE
  ELSE IF nodes[i].parent = 0 THEN FALSE
  ELSE nodes[i].parent = root \/ IsInside(nodes, nodes[i].parent, root)

\* Node.textContent
RECURSIVE textFrom(_, _, _)
textFrom(nodes, i, j) ==
  IF j > Len(nodes) THEN <<>>
  ELSE (IF j = i \/ IsInside(nodes, j, i) THEN nodes[j].text ELSE <<>>)
         \o textFrom(nodes, i, j + 1)
textContent(nodes, i) == textFrom(nodes, i, i)

\* element.children.length === 0
IsLeaf(nodes, i) == \A j \in 1..Len(nodes) : nodes[j].parent # i

\* the first element of a querySelectorAll result, 0 when it is empty
First(S) == IF S = {} THEN 0 ELSE CHOOSE i \in S : \A j \in S : i <= j

\* root.querySelectorAll(selector), as the set of matching positions
querySelectorAll(nodes, root, Sel(_)) ==
  {i \in 1..Len(nodes) : IsInside(nodes, i, root) /\ Sel(nodes[i])}

\* the ancestors of i, i included
RECURSIVE ancestorsOrSelf(_, _)
ancestorsOrSelf(nodes, i) ==
  IF i = 0 THEN {} ELSE {i} \cup ancestorsOrSelf(nodes, nodes[i].parent)

\* element.closest(selector), 0 when there is none
closest(nodes, i, Sel(_)) ==
  LET S == {a \in ancestorsOrSelf(nodes, i) : Sel(nodes[a])}
  IN IF S = {} THEN 0 ELSE CHOOSE a \in S : \A b \in S : b <= a

IsCheckbox(n) == n.tag = "input" /\ n.type = "checkbox"
IsLabelable(n) == n.tag \in {"input", "button", "select", "textarea"}

\* label.control || document.getElementById(label.htmlFor)
labelControl(nodes, l) ==
  LET control ==
        IF nodes[l].htmlFor # ""
        THEN First({i \in 1..Len(nodes) :
                      nodes[i].id = nodes[l].htmlFor /\ IsLabelable(nodes[i])})
        ELSE First(querySelectorAll(nodes, l, IsLabelable))
  IN IF control # 0 THEN control
     ELSE IF nodes[l].htmlFor = "" THEN 0
     ELSE First({i \in 1..Len(nodes) : nodes[i].id = nodes[l].htmlFor})

\* element.click(): the browser's activation behaviour
domClick(nodes, i) ==
  IF nodes[i].disabled THEN nodes
  ELSE IF IsCheckbox(nodes[i]) THEN [nodes EXCEPT ![i].checked = ~nodes[i].checked]
  ELSE IF nodes[i].tag = "input" /\ nodes[i].type = "radio"
       THEN [nodes EXCEPT ![i].checked = TRUE]
  ELSE nodes

(***************************************************************************)
(* Page scripts (lib/page-scripts.js, lib/locators.js)                     *)
(***************************************************************************)
IsScopeContainer(n) ==
  n.tag \in {"li", "tr", "article", "div"} \/ n.role \in {"listitem", "row"}
IsInteractive(n) ==
  \/ n.tag \in {"button", "a"}
  \/ n.role = "button"
  \/ n.tag = "input" /\ n.type \in {"submit", "button"}
IsInputOrTextarea(n) == n.tag \in {"input", "textarea"}
IsLabel(n) == n.tag = "label"
HasAriaLabel(n) == n.ariaLabel # <<>>
HasTitle(n) == n.title # <<>>
AnyElement(n) == TRUE

\* the root the text strategies search: the first container, in document
\* order, whose text includes the scope text; the document otherwise
scopeRoot(nodes, scopeText) ==
  IF scopeText = <<>> THEN 0
  ELSE LET scopeLower == toLowerCase(scopeText)
           hit(c) == includes(toLowerCase(trim(textContent(nodes, c))), scopeLower)
       IN First({c \in querySelectorAll(nodes, 0, IsScopeContainer) : hit(c)})

\* the element the five text strategies settle on, 0 when none does
resolveByText(nodes, text, scopeText) ==
  LET lower == toLowerCase(text)
      root == scopeRoot(nodes, scopeText)
      all(Sel(_)) == querySelectorAll(nodes, root, Sel)
      s1 == First({e \in all(IsInteractive) :
                     matches(textContent(nodes, e), lower) \/ matches(nodes[e].value, lower)})
      s2 == First({e \in all(IsInputOrTextarea) : matches(nodes[e].placeholder, lower)})
      label == First({l \in all(IsLabel) : matches(textContent(nodes, l), lower)})
      s2b == IF label # 0 THEN labelControl(nodes, label) ELSE 0
      s3 == First({e \in all(HasAriaLabel) : matches(nodes[e].ariaLabel, lower)})
      s4 == First({e \in all(HasTitle) : matches(nodes[e].title, lower)})
      s5 == First({e \in all(AnyElement) :
                     matches(textContent(nodes, e), lower) /\ IsLeaf(nodes, e)})
  IN IF s1 # 0 THEN s1 ELSE IF s2 # 0 THEN s2 ELSE IF s2b # 0 THEN s2b
     ELSE IF s3 # 0 THEN s3 ELSE IF s4 # 0 THEN s4 ELSE s5

\* clickElementByText / the text branch of buildClickElementJS
clickElementByText(nodes, text, scopeText) ==
  LET el == resolveByText(nodes, text, scopeText)
  IN IF el = 0 THEN [error |-> TRUE, el |-> 0, clicks |-> 0, nodes |-> nodes, tag |-> ""]
     ELSE [error |-> FALSE, el |-> el, clicks |-> 1, nodes |-> domClick(nodes, el),
           tag |-> nodes[el].tag]

\* clickElementByRef / the ref branch of buildClickElementJS; index = N - 1
clickElementByRef(nodes, index) ==
  IF index < 0 \/ index >= Len(nodes)
  THEN [error |-> TRUE, el |-> 0, clicks |-> 0, nodes |-> nodes, tag |-> ""]
  ELSE [error |-> FALSE, el |-> index + 1, clicks |-> 1,
        nodes |-> domClick(nodes, index + 1), tag |-> nodes[index + 1].tag]

IsCheckItem(n) == n.tag \in {"li", "tr"} \/ n.role \in {"listitem", "row"}
IsLabelContainer(n) == n.tag \in {"li", "tr", "div"} \/ n.role = "listitem"

\* checkElement(text, checked)
checkElement(nodes, text, checked) ==
  LET lower == toLowerCase(text)
      label == First({l \in querySelectorAll(nodes, 0, IsLabel) :
                        matches(textContent(nodes, l), lower)})
      e1 == IF label # 0 THEN labelControl(nodes, label) ELSE 0
      e2 == IF e1 # 0 THEN e1
            ELSE First({e \in querySelectorAll(nodes, 0, IsCheckbox) :
                          nodes[e].ariaLabel = text})
      container == IF label # 0 THEN closest(nodes, label, IsLabelContainer) ELSE 0
      e3 == IF e2 # 0 THEN e2
            ELSE IF container # 0 THEN First(querySelectorAll(nodes, container, IsCheckbox))
            ELSE 0
      item == First({i \in querySelectorAll(nodes, 0, IsCheckItem) :
                       includes(toLowerCase(trim(textContent(nodes, i))), lower)})
      el == IF e3 # 0 THEN e3
            ELSE IF item # 0 THEN First(querySelectorAll(nodes, item, IsCheckbox))
            ELSE 0
  IN IF el = 0 \/ nodes[el].type \notin {"checkbox", "radio"}
     THEN [error |-> TRUE, el |-> 0, clicks |-> 0, nodes |-> nodes]
     ELSE IF nodes[el].checked # checked
          THEN [error |-> FALSE, el |-> el, clicks |-> 1, nodes |-> domClick(nodes, el)]
          ELSE [error |-> FALSE, el |-> el, clicks |-> 0, nodes |-> nodes]

(***************************************************************************)
(* Snapshot (lib/formatter.js) over the accessibility tree of the page     *)
(***************************************************************************)
\* the role Chrome computes for an element
axRole(n) ==
  CASE n.role # "" -> n.role
    [] n.tag = "button" -> "button"
    [] n.tag = "a" -> "link"
    [] n.tag = "li" -> "listitem"
    [] n.tag = "ul" -> "list"
    [] n.tag = "label" -> "LabelText"
    [] n.tag = "input" /\ n.type = "checkbox" -> "checkbox"
    [] n.tag = "input" /\ n.type = "radio" -> "radio"
    [] n.tag = "input" -> "textbox"
    [] OTHER -> "generic"

\* the nodes Accessibility.getFullAXTree answers with: the document, then every
\* element followed by the text it holds; dom is the element a node stands for
RECURSIVE axNodesFrom(_, _)
axNodesFrom(nodes, i) ==
  IF i > Len(nodes) THEN <<>>
  ELSE <<[role |-> axRole(nodes[i]),
          name |-> IF nodes[i].ariaLabel # <<>> THEN nodes[i].ariaLabel
                   ELSE trim(textContent(nodes, i)),
          ignored |-> FALSE, dom |-> i]>>
       \o (IF nodes[i].text # <<>>
           THEN <<[role |-> "StaticText", name |-> nodes[i].text, ignored |-> FALSE, dom |-> 0],
                  [role |-> "InlineTextBox", name |-> nodes[i].text, ignored |-> FALSE, dom |-> 0]>>
           ELSE <<>>)
       \o axNodesFrom(nodes, i + 1)

getFullAXTree(nodes) ==
  <<[role |-> "RootWebArea", name |-> <<>>, ignored |-> FALSE, dom |-> 0]>>
    \o axNodesFrom(nodes, 1)

\* formatAccessibilityTree: the nodes that get a line; the k-th carries ref e<k>
RECURSIVE formatAccessibilityTree(_)
formatAccessibilityTree(ax) ==
  IF ax = <<>> THEN <<>>
  ELSE LET node == Head(ax)
           skip == \/ node.role \in {"", "none", "generic", "InlineTextBox"}
                   \/ node.role = "StaticText" /\ node.name = <<>>
                   \/ node.ignored
       IN (IF skip THEN <<>> ELSE <<node>>) \o formatAccessibilityTree(Tail(ax))

(***************************************************************************)
(* handleCommand (background.js)                                           *)
(***************************************************************************)
MaxRef == 4        \* largest ref number typed in a click command

ListPage(wrap) ==
  LET base == IF wrap = "div" THEN 2 ELSE IF wrap = "ul" THEN 1 ELSE 0
      head == IF wrap = "div" THEN <<El("div", 0, <<>>), El("ul", 1, <<>>)>>
              ELSE IF wrap = "ul" THEN <<El("ul", 0, <<>>)>> ELSE <<>>
  IN head \o <<El("li", base, <<"Milk", " ">>), El("button", base + 1, <<"delete">>),
               El("li", base, <<"eggs", " ">>), El("button", base + 3, <<"delete">>)>>

CheckPage(type, checked, disabled, assoc) ==
  LET box == [El("input", 0, <<>>) EXCEPT !.type = type, !.checked = checked,
                                           !.disabled = disabled]
  IN IF assoc = "for"
     THEN <<[El("label", 0, <<"Accept">>) EXCEPT !.htmlFor = "cb"], [box EXCEPT !.id = "cb"]>>
     ELSE <<El("li", 0, <<"Milk", " ">>), [box EXCEPT !.parent = 1]>>

Pages ==
  {ListPage(w) : w \in {"none", "ul", "div"}}
    \cup {CheckPage(t, c, d, a) : t \in {"checkbox", "radio"}, c \in BOOLEAN,
                                  d \in BOOLEAN, a \in {"for", "li"}}

Commands ==
  {[Cmd("click") EXCEPT !.ref = n] : n \in 1..MaxRef}
    \cup {[Cmd("click") EXCEPT !.target = t, !.scope = sc] :
            t \in {<<"delete">>, <<"Delete">>}, sc \in {<<>>, <<"milk">>, <<"eggs">>}}
    \cup {[Cmd(c) EXCEPT !.target = t] :
            c \in {"check", "uncheck"}, t \in {<<"accept">>, <<"milk">>}}
    \cup {Cmd("snapshot")}
    \cup {[Cmd("screenshot") EXCEPT !.full = f] : f \in BOOLEAN}

Failure(data) == [success |-> FALSE, type |-> "error", data |-> data]
Success(type, data) == [success |-> TRUE, type |-> type, data |-> data]

\* the first CDP call of each command
Entry(c) ==
  CASE c.name = "screenshot" -> IF c.full THEN "metrics" ELSE "capture"
    [] c.name = "snapshot" -> "axtree"
    [] OTHER -> "eval"

Call(method, ok) == [method |-> method, ok |-> ok]

\* a pw-command message arrives; handleCommand runs up to its first await
Issue ==
  \E c \in Commands :
    /\ bg.pc \in {"idle", "done"}
    /\ bg' = [bg EXCEPT !.cmd = c, !.pc = IF bg.attached THEN Entry(c) ELSE "attach",
                        !.issued = <<>>, !.result = NoResult, !.el = 0, !.clicks = 0]
    /\ UNCHANGED <<page, snap, notBg>>

\* ensureAttached: chrome.debugger.attach and the two enable calls
Attach ==
  \E ok \in BOOLEAN :
    /\ bg.pc = "attach"
    /\ bg' = IF ok
             THEN [bg EXCEPT !.attached = TRUE, !.pc = Entry(bg.cmd)]
             ELSE [bg EXCEPT !.pc = "done", !.result = Failure("Failed to attach debugger")]
    /\ UNCHANGED <<page, snap, notBg>>

\* cmdScreenshot: Page.getLayoutMetrics
ShotMetrics ==
  \E ok \in BOOLEAN :
    /\ bg.pc = "metrics"
    /\ bg' = IF ok
             THEN [bg EXCEPT !.pc = "override",
                             !.issued = Append(bg.issued, Call("Page.getLayoutMetrics", ok))]
             ELSE [bg EXCEPT !.pc = "done", !.result = Failure("Screenshot failed"),
                             !.issued = Append(bg.issued, Call("Page.getLayoutMetrics", ok))]
    /\ UNCHANGED <<page, snap, notBg>>

\* cmdScreenshot: Emulation.setDeviceMetricsOverride
ShotOverride ==
  \E ok \in BOOLEAN :
    /\ bg.pc = "override"
    /\ page' = IF ok THEN [page EXCEPT !.override = TRUE] ELSE page
    /\ bg' = IF ok
             THEN [bg EXCEPT !.pc = "capture",
                     !.issued = Append(bg.issued, Call("Emulation.setDeviceMetricsOverride", ok))]
             ELSE [bg EXCEPT !.pc = "done", !.result = Failure("Screenshot failed"),
                     !.issued = Append(bg.issued, Call("Emulation.setDeviceMetricsOverride", ok))]
    /\ UNCHANGED <<snap, notBg>>

\* cmdScreenshot: Page.captureScreenshot
ShotCapture ==
  \E ok \in BOOLEAN :
    /\ bg.pc = "capture"
    /\ bg' = IF ~ok
             THEN [bg EXCEPT !.pc = "done", !.result = Failure("Screenshot failed"),
                             !.issued = Append(bg.issued, Call("Page.captureScreenshot", ok))]
             ELSE IF bg.cmd.full
             THEN [bg EXCEPT !.pc = "clear",
                             !.issued = Append(bg.issued, Call("Page.captureScreenshot", ok))]
             ELSE [bg EXCEPT !.pc = "done", !.result = Success("screenshot", "image"),
                             !.issued = Append(bg.issued, Call("Page.captureScreenshot", ok))]
    /\ UNCHANGED <<page, snap, notBg>>

\* cmdScreenshot: Emulation.clearDeviceMetricsOverride
ShotClear ==
  \E ok \in BOOLEAN :
    /\ bg.pc = "clear"
    /\ page' = IF ok THEN [page EXCEPT !.override = FALSE] ELSE page
    /\ bg' = IF ok
             THEN [bg EXCEPT !.pc = "done", !.result = Success("screenshot", "image"),
                     !.issued = Append(bg.issued, Call("Emulation.clearDeviceMetricsOverride", ok))]
             ELSE [bg EXCEPT !.pc = "done", !.result = Failure("Screenshot failed"),
                     !.issued = Append(bg.issued, Call("Emulation.clearDeviceMetricsOverride", ok))]
    /\ UNCHANGED <<snap, notBg>>

\* cmdSnapshot: Accessibility.getFullAXTree, then formatAccessibilityTree
Snapshot ==
  \E ok \in BOOLEAN :
    /\ bg.pc = "axtree"
    /\ snap' = IF ok THEN formatAccessibilityTree(getFullAXTree(page.nodes)) ELSE snap
    /\ bg' = IF ok
             THEN [bg EXCEPT !.pc = "done", !.result = Success("snapshot", "lines"),
                     !.issued = Append(bg.issued, Call("Accessibility.getFullAXTree", ok))]
             ELSE [bg EXCEPT !.pc = "done", !.result = Failure("Snapshot failed"),
                     !.issued = Append(bg.issued, Call("Accessibility.getFullAXTree", ok))]
    /\ UNCHANGED <<page, notBg>>

\* the page script of cmdClick and cmdCheck, run by Runtime.evaluate
pageScript(c, nodes) ==
  CASE c.name = "click" /\ c.ref > 0 -> clickElementByRef(nodes, c.ref - 1)
    [] c.name = "click" -> clickElementByText(nodes, c.target, c.scope)
    [] c.name = "check" -> checkElement(nodes, c.target, TRUE)
    [] OTHER -> checkElement(nodes, c.target, FALSE)

\* cmdClick / cmdCheck: Runtime.evaluate and the Result made from its value
Evaluate ==
  \E ok \in BOOLEAN :
    /\ bg.pc = "eval"
    /\ LET val == pageScript(bg.cmd, page.nodes)
           failed == IF bg.cmd.name = "click" THEN "Click failed" ELSE "check failed"
           done == IF bg.cmd.name = "click" THEN "Clicked" ELSE "Checked"
       IN IF ~ok
          THEN /\ bg' = [bg EXCEPT !.pc = "done", !.result = Failure(failed),
                                   !.issued = Append(bg.issued, Call("Runtime.evaluate", ok))]
               /\ UNCHANGED page
          ELSE /\ page' = [page EXCEPT !.nodes = val.nodes]
               /\ bg' = [bg EXCEPT !.pc = "done", !.el = val.el, !.clicks = val.clicks,
                           !.result = IF val.error THEN Failure("not found")
                                      ELSE Success("success", done),
                           !.issued = Append(bg.issued, Call("Runtime.evaluate", ok))]
    /\ UNCHANGED <<snap, notBg>>

InitPage ==
  /\ LibIdle
  /\ SessIdle
  /\ EquivIdle
  /\ RecIdle
  /\ TabIdle
  /\ \E nodes \in Pages : page = [nodes |-> nodes, override |-> FALSE]
  /\ bg = IdleWorker
  /\ snap = <<>>
  /\ nav = IdleNav(0, 1)

NextPage ==
  Issue \/ Attach \/ ShotMetrics \/ ShotOverride \/ ShotCapture \/ ShotClear
    \/ Snapshot \/ Evaluate

SpecPage == InitPage /\ [][NextPage]_vars

Issued(method, ok) == \E k \in 1..Len(bg.issued) : bg.issued[k] = Call(method, ok)

\* C7: when `screenshot full` returns after the viewport override was set,
\* the override is no longer in place, whether the capture succeeded or
\* failed (a failure of the clearing call itself is left aside).
OverrideClearedOnReturn ==
  (/\ bg.pc = "done" /\ bg.cmd.name = "screenshot" /\ bg.cmd.full
   /\ Issued("Emulation.setDeviceMetricsOverride", TRUE)
   /\ ~Issued("Emulation.clearDeviceMetricsOverride", FALSE))
    => ~page.override

\* C8: check/uncheck that resolves a check box or radio clicks it not at all
\* when it already has the requested state and once otherwise, and when the
\* command reports success the element has the requested state.
CheckReachesRequestedState ==
  [][(/\ bg.pc = "eval" /\ bg.cmd.name \in {"check", "uncheck"}
      /\ bg'.pc = "done" /\ bg'.el # 0) =>
        LET want == (bg.cmd.name = "check")
        IN /\ bg'.clicks = IF page.nodes[bg'.el].checked = want THEN 0 ELSE 1
           /\ bg'.result.success => page'.nodes[bg'.el].checked = want]_vars

\* C9: `click e<N>`, for a ref e<N> that the last snapshot printed, succeeds
\* and clicks the element that the snapshot's N-th line stands for.
RefClicksSnapshotElement ==
  (/\ bg.pc = "done" /\ bg.cmd.name = "click" /\ bg.cmd.ref \in 1..Len(snap)
   /\ Issued("Runtime.evaluate", TRUE))
    => /\ bg.result.success
       /\ bg.el = snap[bg.cmd.ref].dom

\* the list items of the page, and those whose text contains the scope text
ListItems(nodes) == {i \in 1..Len(nodes) : nodes[i].tag = "li"}
ItemsContaining(nodes, scopeText) ==
  {i \in ListItems(nodes) :
     includes(toLowerCase(trim(textContent(nodes, i))), toLowerCase(scopeText))}
HoldsMatch(nodes, item, text) ==
  \E e \in 1..Len(nodes) :
    IsInside(nodes, e, item) /\ matches(textContent(nodes, e), toLowerCase(text))

\* C10: a scoped click on a page where at least two list items each hold an
\* element matching the target and exactly one item's text contains the scope
\* text clicks an element inside that item.
ScopedClickStaysInItem ==
  (/\ bg.pc = "done" /\ bg.cmd.name = "click" /\ bg.cmd.ref = 0 /\ bg.cmd.scope # <<>>
   /\ Issued("Runtime.evaluate", TRUE)
   /\ Cardinality(ListItems(page.nodes)) >= 2
   /\ \A i \in ListItems(page.nodes) : HoldsMatch(page.nodes, i, bg.cmd.target)
   /\ Cardinality(ItemsContaining(page.nodes, bg.cmd.scope)) = 1)
    => /\ bg.result.success
       /\ \A i \in ItemsContaining(page.nodes, bg.cmd.scope) :
            IsInside(page.nodes, bg.el, i)

(***************************************************************************)
(* Navigation commands and waitForLoad (background.js)                     *)
(***************************************************************************)
NavCommands == {"goto", "reload", "go-back", "go-forward"}
\* the inspected tab and another tab the debugger reports events of
tabId == 1
Tabs == {1, 2}

\* the first CDP call of a navigation command
NavEntryPc(c) == IF c \in {"goto", "reload"} THEN "navigate" ELSE "history"

\* waitForLoad(tabId): arm the 5000 ms timeout and register the listener; a
\* listener that an earlier wait left registered stays registered
waitForLoad(n) ==
  [n EXCEPT !.pc = "wait", !.timer = TRUE, !.listening = TRUE,
            !.resolved = FALSE, !.resolves = 0,
            !.stale = n.stale + IF n.listening THEN 1 ELSE 0]

\* the listeners of waitForLoad that take load events of any tab for their own
listenerAnyTab(n, source) ==
  LET first == n.listening /\ ~n.resolved
  IN [n EXCEPT !.listening = FALSE, !.stale = 0, !.timer = FALSE,
               !.resolved = n.resolved \/ n.listening,
               !.resolves = n.resolves + IF first THEN 1 ELSE 0,
               !.pc = IF first /\ n.pc = "wait" THEN "done" ELSE n.pc,
               !.result = IF first /\ n.pc = "wait" THEN Success("success", n.cmd)
                          ELSE n.result]

\* chrome.debugger.onEvent delivers Page.loadEventFired of tab source to every
\* registered listener of waitForLoad; the command resumes when its wait resolves
listener(n, source) ==
  IF source # tabId THEN n
  ELSE LET first == n.listening /\ ~n.resolved
       IN [n EXCEPT !.listening = FALSE, !.stale = 0,
                    !.timer = IF n.listening THEN FALSE ELSE n.timer,
                    !.resolved = n.resolved \/ n.listening,
                    !.resolves = n.resolves + IF first THEN 1 ELSE 0,
                    !.pc = IF first /\ n.pc = "wait" THEN "done" ELSE n.pc,
                    !.result = IF first /\ n.pc = "wait" THEN Success("success", n.cmd)
                               ELSE n.result]

\* the timeout callback of waitForLoad
timeoutFired(n) ==
  IF n.resolved THEN [n EXCEPT !.timer = FALSE]
  ELSE [n EXCEPT !.timer = FALSE, !.resolved = TRUE, !.resolves = n.resolves + 1,
                 !.pc = "done", !.result = Success("success", n.cmd)]

\* a navigation command arrives; handleCommand runs up to its first await
NavIssue ==
  \E c \in NavCommands :
    /\ nav.pc \in {"idle", "done"}
    /\ nav.waits < MaxWaits
    /\ nav' = [nav EXCEPT !.cmd = c, !.result = NoResult, !.waits = nav.waits + 1,
                          !.pc = IF nav.attached THEN NavEntryPc(c) ELSE "attach"]
    /\ UNCHANGED notNav

\* ensureAttached
NavAttach ==
  \E ok \in BOOLEAN :
    /\ nav.pc = "attach"
    /\ nav' = IF ok THEN [nav EXCEPT !.attached = TRUE, !.pc = NavEntryPc(nav.cmd)]
              ELSE [nav EXCEPT !.pc = "done", !.result = Failure("Failed to attach debugger")]
    /\ UNCHANGED notNav

\* cmdGoto / cmdReload: Page.navigate or Page.reload, then waitForLoad
NavRequest ==
  \E ok \in BOOLEAN :
    /\ nav.pc = "navigate"
    /\ nav' = IF ~ok THEN [nav EXCEPT !.pc = "done", !.result = Failure("Navigation failed")]
              ELSE IF nav.cmd = "reload" THEN waitForLoad(nav)
              ELSE LET index == IF nav.index + 1 < MaxHistory THEN nav.index + 1 ELSE nav.index
                   IN waitForLoad([nav EXCEPT !.index = index, !.entries = index + 1])
    /\ UNCHANGED notNav

\* cmdGoBack / cmdGoForward: Page.getNavigationHistory and the boundary test
NavHistory ==
  \E ok \in BOOLEAN :
    /\ nav.pc = "history"
    /\ nav' = IF ~ok THEN [nav EXCEPT !.pc = "done", !.result = Failure("Go back failed")]
              ELSE IF nav.cmd = "go-back" /\ nav.index <= 0
              THEN [nav EXCEPT !.pc = "done", !.result = Failure("No previous page in history")]
              ELSE IF nav.cmd = "go-forward" /\ nav.index >= nav.entries - 1
              THEN [nav EXCEPT !.pc = "done", !.result = Failure("No next page in history")]
              ELSE [nav EXCEPT !.pc = "entry"]
    /\ UNCHANGED notNav

\* cmdGoBack / cmdGoForward: Page.navigateToHistoryEntry, then waitForLoad
NavEntry ==
  \E ok \in BOOLEAN :
    /\ nav.pc = "entry"
    /\ nav' = IF ~ok THEN [nav EXCEPT !.pc = "done", !.result = Failure("Go back failed")]
              ELSE waitForLoad([nav EXCEPT !.index = IF nav.cmd = "go-back" THEN nav.index - 1
                                                     ELSE nav.index + 1])
    /\ UNCHANGED notNav

\* the debugger reports Page.loadEventFired of some tab
LoadEvent ==
  \E source \in Tabs :
    /\ nav' = [listener(nav, source) EXCEPT !.seen = source]
    /\ UNCHANGED notNav

\* 5000 ms have passed since waitForLoad armed its timeout
WaitTimeout ==
  /\ nav.timer
  /\ nav' = timeoutFired(nav)
  /\ UNCHANGED notNav

InitNav ==
  /\ LibIdle
  /\ SessIdle
  /\ EquivIdle
  /\ RecIdle
  /\ TabIdle
  /\ page = [nodes |-> <<>>, override |-> FALSE]
  /\ bg = IdleWorker
  /\ snap = <<>>
  /\ \E entries \in 1..MaxHistory : \E index \in 0..(entries - 1) :
       nav = IdleNav(index, entries)

NextNav ==
  NavIssue \/ NavAttach \/ NavRequest \/ NavHistory \/ NavEntry \/ LoadEvent \/ WaitTimeout

\* a timeout set with setTimeout always fires in the end
SpecNav == InitNav /\ [][NextNav]_vars /\ WF_vars(WaitTimeout)

\* C16: once a navigation command waits for the load, it always returns in the
\* end; its wait resolves exactly once and the command then reports success;
\* a load event of its tab ends the wait at once and one of another tab does
\* not end it.
NavWaitReturnsOnce ==
  /\ [][/\ nav'.resolves <= 1
        /\ (nav.pc = "wait" /\ nav'.pc # "wait") =>
             /\ nav'.pc = "done" /\ nav'.result.success /\ nav'.resolves = 1
        /\ \A source \in Tabs :
             (nav.pc = "wait" /\ nav' = [listener(nav, source) EXCEPT !.seen = source]) =>
               IF source = tabId THEN nav'.pc = "done"
               ELSE nav'.pc = "wait" /\ nav'.resolves = 0]_vars
  /\ (nav.pc = "wait" ~> nav.pc = "done")

\* go-back has returned success after its wait ran into the timeout
NavWaitWitness ==
  /\ nav.cmd = "go-back" /\ nav.pc = "done" /\ nav.result.success
  /\ nav.resolves = 1 /\ nav.listening /\ nav.seen = 2

(***************************************************************************)
(* Run to completion on panelR against single-stepping on panelS, the      *)
(* same script and the same result for each line                           *)
(***************************************************************************)
ExecutableLines(lines) == {i \in 0..(Len(lines) - 1) : lines[i + 1] = "cmd"}

EqRunClick ==
  /\ clicks.run = 0
  /\ panelR' = RunClickP(panelR)
  /\ clicks' = [clicks EXCEPT !.run = 1]
  /\ UNCHANGED <<panel, outcome, panelS, notSess>>

EqRunResponse ==
  \E k \in InFlight(panelR) :
    /\ panelR' = RunResponseP(panelR, k, outcome[panelR.tasks[k].line])
    /\ UNCHANGED <<panel, outcome, panelS, clicks, notSess>>

EqRunDelay ==
  \E k \in 1..Len(panelR.tasks) :
    /\ panelR.tasks[k].pc = "delay"
    /\ panelR' = RunDelayP(panelR, k)
    /\ UNCHANGED <<panel, outcome, panelS, clicks, notSess>>

EqStepClick ==
  /\ ~panelS.stepDisabled
  /\ clicks.step < Cardinality(ExecutableLines(panelS.editor))
  /\ panelS' = StepClickP(panelS)
  /\ clicks' = [clicks EXCEPT !.step = clicks.step + 1]
  /\ UNCHANGED <<panel, outcome, panelR, notSess>>

EqStepResponse ==
  \E k \in InFlight(panelS) :
    /\ panelS' = StepResponseP(panelS, k, outcome[panelS.tasks[k].line])
    /\ UNCHANGED <<panel, outcome, panelR, clicks, notSess>>

InitEquiv ==
  /\ LibIdle
  /\ SessIdle
  /\ RecIdle
  /\ TabIdle
  /\ BgIdle
  /\ outcome \in [0..(MaxEqLines - 1) -> FixedResults]
  /\ \E s \in EqScripts : panelR = FreshPanel(s) /\ panelS = FreshPanel(s)
  /\ clicks = [run |-> 0, step |-> 0]

NextEquiv == EqRunClick \/ EqRunResponse \/ EqRunDelay \/ EqStepClick \/ EqStepResponse

SpecEquiv == InitEquiv /\ [][NextEquiv]_vars

(***************************************************************************)
(* Recorder (content/recorder.js)                                          *)
(***************************************************************************)
\* the page's elements, each standing for its tag and type; fieldX is a text
\* field whose placeholder is not a string and icon is an SVG element, whose
\* className is not a string
TextFields == {"fieldA", "fieldB", "fieldX"}
Elements == TextFields \cup {"checkbox", "button", "div", "select", "icon"}
Values == {"", "a", "b"}
Keys == {"Enter", "Tab", "Escape", "x"}
specialKeys == {"Enter", "Tab", "Escape"}
\* container tags whose clicks are not recorded (no role, no onclick)
skipTags == {"div"}

\* quote(el.placeholder) calls replace on a value that has none
getLocatorThrows(el) == el = "fieldX"
\* (el.className || "").toLowerCase() calls toLowerCase on an SVGAnimatedString
classNameThrows(el) == el = "icon"

send(log, command) == Append(log, command)

\* console.debug("__pw:# click recording error: " + err.message)
ErrorReport == [cmd |-> "#", target |-> "click recording error", value |-> ""]

\* flushFill reaches getLocator(fillTarget) and it throws
flushFillThrows(r) ==
  r.fillTarget # "null" /\ r.fillValue # "" /\ getLocatorThrows(r.fillTarget)

\* flushFill: the commands it sends, given the closure's variables
flushFillCmds(r) ==
  IF r.fillTarget # "null" /\ r.fillValue # "" /\ ~flushFillThrows(r)
  THEN <<[cmd |-> "fill", target |-> r.fillTarget, value |-> r.fillValue]>>
  ELSE <<>>

\* flushFill: the closure's variables afterwards; the three resets come after
\* the call of getLocator
flushFill(r) ==
  IF flushFillThrows(r) THEN r
  ELSE [r EXCEPT !.fillTimer = FALSE, !.fillTarget = "null", !.fillValue = ""]

\* if (fillTimer) { clearTimeout(fillTimer); flushFill(); }
flushPending(r) == IF r.fillTimer THEN [flushFill(r) EXCEPT !.scheduled = FALSE] ELSE r
flushPendingCmds(r) == IF r.fillTimer THEN flushFillCmds(r) ELSE <<>>
flushPendingThrows(r) == r.fillTimer /\ flushFillThrows(r)

\* what handleClick sends for the click itself; checked is the state after the click
clickCmds(el, checked) ==
  IF el \in TextFields THEN <<>>
  ELSE IF el \in skipTags THEN <<>>
  ELSE IF el = "checkbox"
       THEN <<[cmd |-> IF checked THEN "check" ELSE "uncheck", target |-> el, value |-> ""]>>
  ELSE <<[cmd |-> "click", target |-> el, value |-> ""]>>

\* handleClick's try block: what it has sent when it returns or throws
clickTry(r, el, checked) ==
  IF flushPendingThrows(r) THEN <<>>
  ELSE flushPendingCmds(r) \o (IF classNameThrows(el) THEN <<>> ELSE clickCmds(el, checked))

\* handleClick's try block throws
clickThrows(r, el) == flushPendingThrows(r) \/ classNameThrows(el)

\* what handleKeydown sends for the key itself
keyCmds(key) ==
  IF key \in specialKeys THEN <<[cmd |-> "press", target |-> key, value |-> ""]>> ELSE <<>>

CanEmit(n) == Len(emitted) + n <= MaxEmit

\* the recorder script is evaluated in the page
Inject ==
  /\ rec' = IF rec.active THEN rec
            ELSE [active |-> TRUE, listening |-> TRUE, fillTimer |-> FALSE, scheduled |-> FALSE,
                  fillTarget |-> "null", fillValue |-> ""]
  /\ lastEvent' = [kind |-> "inject", el |-> "null", value |-> "", threw |-> FALSE]
  /\ UNCHANGED <<emitted, cbChecked, notRec>>

\* an input event on el, whose value is now v
handleInput(el, v) ==
  /\ lastEvent' = [kind |-> "input", el |-> el, value |-> v, threw |-> FALSE]
  /\ rec' = IF rec.listening /\ el \in TextFields
            THEN [rec EXCEPT !.fillTarget = el, !.fillValue = v, !.fillTimer = TRUE,
                             !.scheduled = TRUE]
            ELSE rec
  /\ UNCHANGED <<emitted, cbChecked, notRec>>

InputEvent == \E el \in Elements \ {"div", "select", "icon"}, v \in Values : handleInput(el, v)

\* the debounce timer elapses and calls flushFill
TimerFire ==
  /\ rec.scheduled
  /\ CanEmit(1)
  /\ emitted' = emitted \o flushFillCmds(rec)
  /\ rec' = [flushFill(rec) EXCEPT !.scheduled = FALSE]
  /\ lastEvent' = [kind |-> "timer", el |-> "null", value |-> "", threw |-> flushFillThrows(rec)]
  /\ UNCHANGED <<cbChecked, notRec>>

\* a click on el; the browser toggles a checkbox before the listener runs
handleClick(el) ==
  /\ CanEmit(2)
  /\ cbChecked' = IF el = "checkbox" THEN ~cbChecked ELSE cbChecked
  /\ IF rec.listening
     THEN /\ emitted' = emitted \o clickTry(rec, el, cbChecked') \o
                          (IF clickThrows(rec, el) THEN <<ErrorReport>> ELSE <<>>)
          /\ rec' = flushPending(rec)
     ELSE UNCHANGED <<emitted, rec>>
  /\ lastEvent' = [kind |-> "click", el |-> el, value |-> "", threw |-> FALSE]
  /\ UNCHANGED notRec

ClickEvent == \E el \in Elements \ {"select"} : handleClick(el)

\* a key-down
handleKeydown(key) ==
  /\ CanEmit(2)
  /\ IF rec.listening /\ key \in specialKeys
     THEN /\ emitted' = IF flushPendingThrows(rec) THEN emitted
                        ELSE emitted \o flushPendingCmds(rec) \o keyCmds(key)
          /\ rec' = flushPending(rec)
     ELSE UNCHANGED <<emitted, rec>>
  /\ lastEvent' = [kind |-> "keydown", el |-> key, value |-> "",
                   threw |-> rec.listening /\ key \in specialKeys /\ flushPendingThrows(rec)]
  /\ UNCHANGED <<cbChecked, notRec>>

KeydownEvent == \E key \in Keys : handleKeydown(key)

\* a change event on el, whose selected option is now v
handleChange(el, v) ==
  /\ CanEmit(1)
  /\ emitted' = IF rec.listening /\ el = "select"
                THEN send(emitted, [cmd |-> "select", target |-> el, value |-> v])
                ELSE emitted
  /\ lastEvent' = [kind |-> "change", el |-> el, value |-> v, threw |-> FALSE]
  /\ UNCHANGED <<rec, cbChecked, notRec>>

ChangeEvent == \E el \in {"select", "fieldA"}, v \in Values \ {""} : handleChange(el, v)

\* window.__pwRecorderCleanup && window.__pwRecorderCleanup(); a throwing
\* flushFill ends it before the listeners are removed
Cleanup ==
  /\ rec.active
  /\ CanEmit(1)
  /\ emitted' = emitted \o flushPendingCmds(rec)
  /\ rec' = IF flushPendingThrows(rec) THEN flushPending(rec)
            ELSE [flushPending(rec) EXCEPT !.listening = FALSE, !.active = FALSE]
  /\ lastEvent' = [kind |-> "cleanup", el |-> "null", value |-> "",
                   threw |-> flushPendingThrows(rec)]
  /\ UNCHANGED <<cbChecked, notRec>>

InitRecorder ==
  /\ LibIdle
  /\ SessIdle
  /\ EquivIdle
  /\ RecIdle
  /\ TabIdle
  /\ BgIdle

NextRecorder ==
  Inject \/ InputEvent \/ TimerFire \/ ClickEvent \/ KeydownEvent \/ ChangeEvent \/ Cleanup

SpecRecorder == InitRecorder /\ [][NextRecorder]_vars

\* the fill command of the pending {target, value} pair
PendingFill(r) == [cmd |-> "fill", target |-> r.fillTarget, value |-> r.fillValue]

\* C4: an input event on a text field sends nothing; when the debounce timer
\* elapses after a burst of input events on one field, exactly one fill has
\* been sent, carrying the value of the last event of the burst.
FillOncePerBurst ==
  [][/\ (lastEvent'.kind = "input" /\ lastEvent'.el \in TextFields) => emitted' = emitted
     /\ (rec.listening /\ lastEvent.kind = "input" /\ lastEvent.el \in TextFields
           /\ lastEvent'.kind = "timer") =>
          emitted' = Append(emitted,
             [cmd |-> "fill", target |-> lastEvent.el, value |-> lastEvent.value])]_vars

\* C5: a click or an Enter/Tab/Escape key-down observed while a fill is
\* pending sends the pending fill first and the event's own command after it,
\* and leaves no timer armed and no pending pair behind.
FlushBeforeClickOrKey ==
  [][(rec.listening /\ rec.fillTimer) =>
       /\ lastEvent'.kind = "click" =>
             /\ emitted' = emitted \o <<PendingFill(rec)>> \o clickCmds(lastEvent'.el, cbChecked')
             /\ ~rec'.fillTimer /\ rec'.fillTarget = "null"
       /\ (lastEvent'.kind = "keydown" /\ lastEvent'.el \in specialKeys) =>
             /\ emitted' = emitted \o <<PendingFill(rec)>> \o keyCmds(lastEvent'.el)
             /\ ~rec'.fillTimer /\ rec'.fillTarget = "null"]_vars

\* C6: cleanup sends the pending fill, if there is one, exactly once, removes
\* the listeners, clears the active flag and leaves no timer armed; while the
\* recorder is not active no page event or timer expiry sends a command.
CleanupFlushesAndStops ==
  [][/\ lastEvent'.kind = "cleanup" =>
          /\ emitted' = emitted \o (IF rec.fillTimer THEN <<PendingFill(rec)>> ELSE <<>>)
          /\ ~rec'.listening /\ ~rec'.active /\ ~rec'.fillTimer
     /\ ~rec.active => emitted' = emitted]_vars

\* log' is log followed by what one handler sent, and that ends with cmds
SentLast(log, after, cmds) ==
  /\ Len(after) >= Len(log) + Len(cmds)
  /\ SubSeq(after, 1, Len(log)) = log
  /\ SubSeq(after, Len(after) - Len(cmds) + 1, Len(after)) = cmds

\* C28: no handler of the recorder (click, input, change, key-down, debounce
\* expiry) lets an exception out to the page, and while the listeners are
\* installed every recordable event on a well-formed element still sends its
\* command, whatever went wrong while an earlier event was handled.
FaultsStayInside ==
  [][/\ ~lastEvent'.threw
     /\ (rec.listening /\ lastEvent'.kind = "click" /\ ~classNameThrows(lastEvent'.el)) =>
          SentLast(emitted, emitted', clickCmds(lastEvent'.el, cbChecked'))
     /\ (rec.listening /\ lastEvent'.kind = "keydown") =>
          SentLast(emitted, emitted', keyCmds(lastEvent'.el))
     /\ (rec.listening /\ lastEvent'.kind = "change" /\ lastEvent'.el = "select") =>
          emitted' = Append(emitted, [cmd |-> "select", target |-> "select",
                                      value |-> lastEvent'.value])]_vars

\* a fill with a non-empty value is pending on a well-formed field
FillWaiting(r) ==
  r.listening /\ r.fillTimer /\ r.fillTarget # "null" /\ r.fillValue # "" /\ ~flushFillThrows(r)

\* C35: commands are sent in the order of the user's actions: an event that
\* sends a command of its own while a fill typed earlier is waiting (a click, an
\* Enter/Tab/Escape key-down, a change of a select) sends that fill first.
RecordedInOrder ==
  [][(FillWaiting(rec) /\ lastEvent'.kind \in {"click", "keydown", "change"}
        /\ emitted' # emitted) =>
       /\ Len(emitted') > Len(emitted)
       /\ emitted'[Len(emitted) + 1] = PendingFill(rec)]_vars

\* C36: an input event on another text field while a fill is waiting does not
\* lose the waiting fill: it is sent at once or the recorder still holds it.
NoTypedTextLost ==
  [][(FillWaiting(rec) /\ lastEvent'.kind = "input" /\ lastEvent'.el \in TextFields
        /\ lastEvent'.el # rec.fillTarget) =>
       \/ emitted' = Append(emitted, PendingFill(rec))
       \/ rec'.fillTarget = rec.fillTarget /\ rec'.fillValue = rec.fillValue]_vars

\* C34: the two counters add up to the number of buffer lines that carry a
\* pass or fail result, and no result is recorded at an index that is not the
\* index of a buffer line holding a command.
CountsMatchMarkedLines ==
  LET marked == {i \in 0..(Len(panel.editor) - 1) : panel.lineResults[i] \in {"pass", "fail"}}
  IN /\ panel.runPassCount + panel.runFailCount = Cardinality(marked)
     /\ \A i \in Indices :
          panel.lineResults[i] \in {"pass", "fail"} => (i \in marked /\ panel.editor[i + 1] = "cmd")

\* C37: every step that changes the buffer's content, whether by a user
\* edit, an opened file or an appended recorded command, leaves the step
\* cursor at -1 and no line with a pass or fail result.
BufferChangeResets ==
  [][panel'.editor # panel.editor =>
       /\ panel'.stepLine = -1
       /\ \A i \in Indices : panel'.lineResults[i] \notin {"pass", "fail"}]_vars

\* the marker updateLineNumbers shows for line i
Marker(p, i) == IF p.lineResults[i] \in {"pass", "fail"} THEN p.lineResults[i] ELSE "unset"

RunFinished == clicks.run = 1 /\ panelR.tasks = <<>>
StepsFinished ==
  /\ clicks.step = Cardinality(ExecutableLines(panelS.editor))
  /\ panelS.tasks = <<>>

\* C1: once the run has completed and one Step per executable line has
\* completed, both panels show the same marker on every line and the same
\* pass and fail counts.
RunStepEquivalent ==
  (RunFinished /\ StepsFinished) =>
    /\ \A i \in 0..(MaxEqLines - 1) : Marker(panelR, i) = Marker(panelS, i)
    /\ panelR.runPassCount = panelS.runPassCount
    /\ panelR.runFailCount = panelS.runFailCount

RunStepEquivalentWitness ==
  /\ RunFinished /\ StepsFinished
  /\ panelR.editor = <<"comment", "cmd", "blank">> \/ panelR.editor = <<"cmd", "comment", "cmd">>
  /\ panelS.runFailCount = 1
  /\ \E i \in 0..(MaxEqLines - 1) : Marker(panelS, i) = "fail"

\* C2: a run activation that a stop was requested for sends no further
\* command: resuming it never puts a later line in flight.
StoppedRunStartsNoLine ==
  [][\A k \in 1..Len(panel.tasks) :
       (panel.tasks[k].kind = "run" /\ panel.tasks[k].stopped) =>
         ~ /\ \/ panel' = RunDelayP(panel, k)
                \/ \E res \in ResultTypes : panel' = RunResponseP(panel, k, res)
            /\ Len(panel'.tasks) = Len(panel.tasks)
            /\ panel'.tasks[k].pc = "cmd"
            /\ panel'.tasks[k].line > panel.tasks[k].line]_vars

\* C3: at most one script command is in flight at any time.
OneCommandInFlight == Cardinality(InFlight(panel)) <= 1

\* C11: from an edit of the buffer until the next Run or Step click, the step
\* cursor is at the start and no line carries a pass or fail result, whatever
\* commands were in flight when the edit was made.
EditResetsStepState ==
  panel.edited =>
    /\ panel.stepLine \in {-1, 0}
    /\ \A i \in 0..(MaxIndex - 1) : Marker(panel, i) = "unset"

\* the line the next Step starts looking from
Cursor(p) == IF p.stepLine = -1 THEN 0 ELSE p.stepLine
\* l is the first non-blank, non-comment line of lines at or after line c
FirstExecutableFrom(lines, c, l) ==
  /\ c <= l /\ l < Len(lines)
  /\ lines[l + 1] = "cmd"
  /\ \A j \in c..(l - 1) : lines[j + 1] # "cmd"
\* the step handler is invoked while no run is active and a line is left for it
StepInvoked ==
  /\ ~panel.stepDisabled /\ ~panel.isRunning
  /\ panel' = StepClickP(panel)
  /\ \E l \in 0..(Len(panel.editor) - 1) :
       FirstExecutableFrom(panel.editor, Cursor(panel), l)
\* the step handler suspended as task k resumes with the transport's answer
StepAnswered(k) ==
  /\ panel.tasks[k].kind = "step" /\ panel.tasks[k].pc = "cmd"
  /\ \E res \in ResultTypes : panel' = StepResponseP(panel, k, res)
\* the Step click sends one command, the first executable line from the cursor
StepSendsOne ==
  StepInvoked =>
    /\ Len(panel'.tasks) = Len(panel.tasks) + 1
    /\ SubSeq(panel'.tasks, 1, Len(panel.tasks)) = panel.tasks
    /\ LET t == panel'.tasks[Len(panel'.tasks)]
       IN /\ t.kind = "step" /\ t.pc = "cmd"
          /\ FirstExecutableFrom(panel.editor, Cursor(panel), t.line)
\* no step handler is suspended on a blank or comment line
StepSendsCommandsOnly ==
  \A k \in 1..Len(panel'.tasks) :
    (panel'.tasks[k].kind = "step" /\ panel'.tasks[k].pc = "cmd") =>
      panel'.tasks[k].lines[panel'.tasks[k].line + 1] = "cmd"

\* C12 as stated: a Step on a buffer with an executable line left sends exactly
\* one command, the first non-blank, non-comment line at or after the cursor,
\* and its completion leaves the cursor just after that line; blank and
\* comment lines are never sent.
StepAdvancesPastLine ==
  [][/\ StepSendsOne
     /\ StepSendsCommandsOnly
     /\ \A k \in 1..Len(panel.tasks) :
          StepAnswered(k) => panel'.stepLine = panel.tasks[k].line + 1]_vars

\* C12 amended: as above, for a Step made while no run is active, and the
\* cursor goes back to the start when no executable line follows the one sent.
StepAdvancesOrResets ==
  [][/\ StepSendsOne
     /\ StepSendsCommandsOnly
     /\ \A k \in 1..Len(panel.tasks) :
          StepAnswered(k) =>
            LET t == panel.tasks[k]
                more == \E l \in (t.line + 1)..(Len(t.lines) - 1) : t.lines[l + 1] = "cmd"
            IN panel'.stepLine = IF more THEN t.line + 1 ELSE -1]_vars

\* a second Step has skipped a comment and is waiting for its command's answer
StepAdvancesWitness ==
  /\ panel.editor = <<"cmd", "comment", "cmd">> \/ panel.editor = <<"cmd", "cmd">>
  /\ panel.stepLine = 1
  /\ \E k \in 1..Len(panel.tasks) :
       panel.tasks[k].kind = "step" /\ panel.tasks[k].line = Len(panel.editor) - 1

AllExecuted == "Step complete. All lines executed."
NoMoreLines == "Step complete. No more lines to execute."
\* the Step button is clicked while no run is active and the buffer is not empty
StepClicked ==
  /\ ~panel.stepDisabled /\ ~panel.isRunning /\ HasContent(panel.editor)
  /\ panel' = StepClickP(panel)

\* C13 as stated: a Step invoked after the last executable line has been
\* stepped executes no command, reports completion and resets the cursor.
StepPastLastReportsComplete ==
  [][(panel.said = AllExecuted /\ StepClicked) =>
       /\ panel'.tasks = panel.tasks
       /\ panel'.said \in {AllExecuted, NoMoreLines}
       /\ panel'.stepLine = -1]_vars

\* C13 amended: the Step that executes the last executable line reports
\* completion and resets the cursor when its answer has been handled, and the
\* Step after it starts over from the first executable line; a Step with no
\* executable line at or after the cursor executes no command, reports
\* completion and resets the cursor.
LastStepReportsComplete ==
  [][/\ \A k \in 1..Len(panel.tasks) :
          StepAnswered(k) =>
            LET t == panel.tasks[k]
                more == \E l \in (t.line + 1)..(Len(t.lines) - 1) : t.lines[l + 1] = "cmd"
            IN IF more THEN panel'.said = ""
               ELSE /\ panel'.said = AllExecuted
                    /\ panel'.stepLine = -1 /\ panel'.currentRunLine = -1
     /\ (panel.said = AllExecuted /\ StepClicked) =>
          /\ Len(panel'.tasks) = Len(panel.tasks) + 1
          /\ FirstExecutableFrom(panel.editor, 0, panel'.tasks[Len(panel'.tasks)].line)
     /\ (StepClicked /\ ~\E l \in 0..(Len(panel.editor) - 1) :
                            FirstExecutableFrom(panel.editor, Cursor(panel), l)) =>
          /\ panel'.tasks = panel.tasks
          /\ panel'.said = NoMoreLines
          /\ panel'.stepLine = -1 /\ panel'.currentRunLine = -1]_vars

\* the last executable line of a buffer of two lines has just been stepped
LastStepWitness ==
  /\ panel.said = AllExecuted /\ panel.stepLine = -1 /\ panel.tasks = <<>>
  /\ Len(panel.editor) = 2
  /\ Marker(panel, 0) # "unset" /\ Marker(panel, 1) # "unset"

\* the Result kinds the claim names
PassKinds == {"success", "info", "snapshot", "screenshot"}
FailKinds == {"error", "none", "throw"}
\* the handler suspended as task k resumes with an answer of kind res
Answered(k, res) ==
  /\ panel.tasks[k].pc = "cmd"
  /\ panel' = IF panel.tasks[k].kind = "run" THEN RunResponseP(panel, k, res)
              ELSE StepResponseP(panel, k, res)

\* C14: the line whose command was answered is marked pass when the kind is
\* success, info, snapshot or screenshot and fail when it is error, a missing
\* answer or a throw, and exactly one of the two counters goes up by one;
\* passing over a comment line changes neither counter.
LineMarkedByResult ==
  [][/\ \A k \in 1..Len(panel.tasks) : \A res \in PassKinds \cup FailKinds :
          Answered(k, res) =>
            /\ Marker(panel', panel.tasks[k].line) = IF res \in PassKinds THEN "pass" ELSE "fail"
            /\ panel'.runPassCount = panel.runPassCount + IF res \in PassKinds THEN 1 ELSE 0
            /\ panel'.runFailCount = panel.runFailCount + IF res \in PassKinds THEN 0 ELSE 1
     /\ \A k \in 1..Len(panel.tasks) :
          (panel.tasks[k].pc = "delay" /\ panel' = RunDelayP(panel, k)) =>
            /\ panel'.runPassCount = panel.runPassCount
            /\ panel'.runFailCount = panel.runFailCount]_vars

\* Run is clicked, while no run is active, with the step cursor past the first line
RunResumed ==
  /\ ~panel.isRunning /\ panel.stepLine > 0 /\ HasContent(panel.editor)
  /\ panel' = RunClickP(panel)
\* the run handler suspended as task k takes its next step
RunAdvanced(k) ==
  /\ panel.tasks[k].kind = "run"
  /\ \/ panel.tasks[k].pc = "delay" /\ panel' = RunDelayP(panel, k)
     \/ panel.tasks[k].pc = "cmd" /\ \E res \in ResultTypes : panel' = RunResponseP(panel, k, res)

\* C15: a Run clicked with the step cursor past the first line keeps every
\* result and both counters, starts no line before the cursor and goes through
\* the buffer forwards; while it executes, the results of the lines before the
\* cursor stay as the steps left them; when it ends the cursor is reset.
RunResumesFromCursor ==
  [][/\ RunResumed =>
          /\ \A i \in 0..(MaxIndex - 1) : Marker(panel', i) = Marker(panel, i)
          /\ panel'.runPassCount = panel.runPassCount
          /\ panel'.runFailCount = panel.runFailCount
          /\ \A k \in (Len(panel.tasks) + 1)..Len(panel'.tasks) :
               panel'.tasks[k].line >= panel.stepLine
     /\ \A k \in 1..Len(panel.tasks) :
          RunAdvanced(k) =>
            /\ \A i \in 0..(panel.runFrom - 1) : Marker(panel', i) = Marker(panel, i)
            /\ \A j \in 1..Len(panel'.tasks) :
                 (panel'.tasks[j].kind = "run" /\ j = k /\ Len(panel'.tasks) = Len(panel.tasks)) =>
                   panel'.tasks[j].line > panel.tasks[k].line \/ panel'.tasks[j] = [panel.tasks[k] EXCEPT !.pc = "delay"]
     /\ (panel' # panel /\ panel'.said = "Run complete.") =>
          /\ panel'.stepLine = -1 /\ ~panel'.isRunning]_vars


(***************************************************************************)
(* handleCommand over the commands of its switch (background.js), on a     *)
(* page that is a form.  In this specification `page` also carries the     *)
(* focused element, the element scrolled into view, the pointer position,  *)
(* the URL and the title; `bg` also carries the events the command's page  *)
(* scripts dispatched.                                                      *)
(***************************************************************************)
\* parseCommand's value: the command name and its arguments
Parsed(name, args) == [name |-> name, args |-> args]

FormPage(checked, chosen) ==
  << [El("label", 0, <<"Milk">>) EXCEPT !.htmlFor = "in"],
     [El("input", 0, <<>>) EXCEPT !.id = "in", !.type = "text"],
     [El("label", 0, <<"color">>) EXCEPT !.htmlFor = "sel"],
     [El("select", 0, <<>>) EXCEPT !.id = "sel", !.value = chosen, !.title = <<"e", "2">>],
     [El("option", 4, <<"red">>) EXCEPT !.value = <<"red">>],
     [El("option", 4, <<"blue">>) EXCEPT !.value = <<"blue">>],
     [El("label", 0, <<"Accept">>) EXCEPT !.htmlFor = "cb"],
     [El("input", 0, <<>>) EXCEPT !.id = "cb", !.type = "checkbox", !.checked = checked],
     [El("button", 0, <<"Delete">>) EXCEPT !.title = <<"hint">>] >>

FormPages == {FormPage(c, v) : c \in BOOLEAN, v \in {<<"red">>, <<"blue">>}}

Document(nodes) ==
  [nodes |-> nodes, override |-> FALSE, focus |-> 0, view |-> 0, pointer |-> 0,
   url |-> <<"https://", "shop">>, title |-> <<"Shop">>]

\* the command lines typed in this specification
FormCommands ==
  {Parsed(c, a) : c \in {"click", "dblclick", "hover", "check", "uncheck",
                         "verify-element", "verify-no-element"},
                  a \in {<<>>, <<<<"delete">>>>, <<<<"accept">>>>, <<<<"nothing">>>>}}
    \cup {Parsed(c, <<<<"hint">>>>) : c \in {"click", "verify-element", "verify-no-element"}}
    \cup {Parsed(c, <<t>>) : c \in {"click", "hover", "check"},
                             t \in {<<"Delete">>, <<" ", "delete">>, <<"Accept">>}}
    \cup {Parsed("click", <<t>>) :
            t \in {<<"e", "0">>, <<"e", "2">>, <<"e", "9">>, <<"e", "1", "0">>}}
    \cup {Parsed("fill", a) :
            a \in {<<>>, <<<<"milk">>>>, <<<<"milk">>, <<"x">>>>, <<<<"nothing">>, <<"x">>>>}}
    \cup {Parsed("select", a) :
            a \in {<<<<"color">>>>, <<<<"color">>, <<"blue">>>>, <<<<"color">>, <<"green">>>>,
                   <<<<"nothing">>, <<"red">>>>, <<<<"milk">>, <<"red">>>>}}
    \cup {Parsed(c, a) : c \in {"verify-text", "verify-no-text"},
                         a \in {<<>>, <<<<"Delete">>>>, <<<<"delete">>>>}}
    \cup {Parsed("verify-url", a) : a \in {<<>>, <<<<"shop">>>>, <<<<"example">>>>}}
    \cup {Parsed("verify-title", a) : a \in {<<>>, <<<<"Shop">>>>, <<<<"nothing">>>>}}
    \cup {Parsed(c, a) : c \in {"press", "eval", "goto"}, a \in {<<>>, <<<<"example">>>>}}
    \cup {Parsed("help", <<>>), Parsed("frobnicate", <<>>)}

\* the commands the switch of handleCommand knows
Known ==
  {"click", "dblclick", "hover", "check", "uncheck", "fill", "select", "press", "eval",
   "goto", "verify-text", "verify-no-text", "verify-element", "verify-no-element",
   "verify-url", "verify-title"}

\* the number of arguments below which cmdX returns its Usage error
required(name) == IF name \in {"fill", "select"} THEN 2 ELSE 1

\* the first CDP call of cmdX
entry(name) ==
  CASE name = "press" -> "keydown"
    [] name = "eval" -> "expr"
    [] name = "goto" -> "navigate"
    [] name \in {"verify-text", "verify-no-text", "verify-element", "verify-no-element",
                 "verify-url", "verify-title"} -> "verify"
    [] OTHER -> "eval"

\* the switch of handleCommand and the argument check that opens cmdX
dispatch(b) ==
  IF b.cmd.name \notin Known
  THEN [b EXCEPT !.pc = "done", !.result = Failure("Unknown command")]
  ELSE IF Len(b.cmd.args) < required(b.cmd.name)
       THEN [b EXCEPT !.pc = "done", !.result = Failure("Usage")]
       ELSE [b EXCEPT !.pc = entry(b.cmd.name)]

IdleExecutor ==
  [cmd |-> Parsed("help", <<>>), pc |-> "idle", attached |-> FALSE, issued |-> <<>>,
   result |-> NoResult, el |-> 0, clicks |-> 0, events |-> <<>>, ran |-> FALSE, tag |-> "",
   handled |-> 0]

\* a pw-command message arrives; handleCommand runs up to its first await
FormIssue ==
  \E c \in FormCommands :
    /\ bg.pc \in {"idle", "done"}
    /\ bg.handled < MaxCommands
    /\ LET b == [bg EXCEPT !.cmd = c, !.issued = <<>>, !.result = NoResult, !.el = 0,
                           !.clicks = 0, !.events = <<>>, !.ran = FALSE, !.tag = "",
                           !.handled = @ + 1]
       IN bg' = IF c.name = "help"
                THEN [b EXCEPT !.pc = "done", !.result = Success("info", "help")]
                ELSE IF b.attached THEN dispatch(b)
                ELSE [b EXCEPT !.pc = "attach"]
    /\ UNCHANGED <<page, snap, notBg>>

AttachCalls == <<"chrome.debugger.attach", "Page.enable", "Runtime.enable">>

\* ensureAttached: the three calls in order, the failAt-th one rejecting
\* (0: none); then the switch
FormAttach ==
  \E failAt \in 0..Len(AttachCalls) :
    /\ bg.pc = "attach"
    /\ LET n == IF failAt = 0 THEN Len(AttachCalls) ELSE failAt
           calls == [k \in 1..n |-> Call(AttachCalls[k], k # failAt)]
       IN bg' = IF failAt = 0
                THEN dispatch([bg EXCEPT !.attached = TRUE, !.issued = calls])
                ELSE [bg EXCEPT !.pc = "done", !.issued = calls,
                                !.result = Failure("Failed to attach debugger")]
    /\ UNCHANGED <<page, snap, notBg>>

\* `await cdp(tabId, method)` inside the try of cmdX: on rejection the catch
\* returns the error Result
cdpContinue(b, method, ok, next, failed) ==
  [b EXCEPT !.pc = next, !.issued = Append(b.issued, Call(method, ok))]

cdp(b, method, ok, next, failed) ==
  IF ok THEN [b EXCEPT !.pc = next, !.issued = Append(b.issued, Call(method, TRUE))]
  ELSE [b EXCEPT !.pc = "done", !.result = Failure(failed),
                 !.issued = Append(b.issued, Call(method, FALSE))]

\* what a page script did: its value and the page it left
Acted(error, el, count, nodes, focus, view, events) ==
  [error |-> error, el |-> el, clicks |-> count, nodes |-> nodes, focus |-> focus,
   view |-> view, events |-> events]
NotFound(pg) == Acted(TRUE, 0, 0, pg.nodes, pg.focus, pg.view, <<>>)

\* the element focusElement / buildFocusElementJS settles on, 0 when none
focusTarget(nodes, text) ==
  LET lower == toLowerCase(text)
      s1 == First({e \in querySelectorAll(nodes, 0, IsInputOrTextarea) :
                     matches(nodes[e].placeholder, lower)})
      label == First({l \in querySelectorAll(nodes, 0, IsLabel) :
                        matches(textContent(nodes, l), lower)})
      s2 == IF label # 0 THEN labelControl(nodes, label) ELSE 0
      s3 == First({e \in querySelectorAll(nodes, 0, HasAriaLabel) :
                     matches(nodes[e].ariaLabel, lower)})
      s4 == First({e \in querySelectorAll(nodes, 0, IsInputOrTextarea) :
                     matches(nodes[e].ariaLabel, lower) \/ matches(nodes[e].placeholder, lower)})
  IN IF s1 # 0 THEN s1 ELSE IF s2 # 0 THEN s2 ELSE IF s3 # 0 THEN s3 ELSE s4

\* buildFocusElementJS(target): el.focus(); a disabled control takes no focus
focusElement(pg, text) ==
  LET el == focusTarget(pg.nodes, text)
  IN IF el = 0 THEN NotFound(pg)
     ELSE Acted(FALSE, el, 0, pg.nodes, IF pg.nodes[el].disabled THEN pg.focus ELSE el,
                pg.view, <<>>)

\* the <select> selectElement settles on, 0 when none
selectTarget(nodes, text) ==
  LET lower == toLowerCase(text)
      byAria == First({e \in 1..Len(nodes) :
                         nodes[e].tag = "select" /\ nodes[e].ariaLabel = text /\ text # <<>>})
      label == First({l \in querySelectorAll(nodes, 0, IsLabel) :
                        matches(textContent(nodes, l), lower)})
      sel == IF byAria # 0 THEN byAria
             ELSE IF label # 0 THEN labelControl(nodes, label) ELSE 0
  IN IF sel # 0 /\ nodes[sel].tag = "select" THEN sel ELSE 0

\* the option of sel that selectElement settles on, 0 when none
optionTarget(nodes, sel, optText) ==
  First({o \in 1..Len(nodes) :
           /\ nodes[o].tag = "option" /\ IsInside(nodes, o, sel)
           /\ \/ toLowerCase(trim(textContent(nodes, o))) = toLowerCase(optText)
              \/ toLowerCase(nodes[o].value) = toLowerCase(optText)})

selectElementAnyOption(pg, text, optText) ==
  LET sel == selectTarget(pg.nodes, text)
      opt == IF sel = 0 THEN 0 ELSE optionTarget(pg.nodes, sel, optText)
      any == IF sel = 0 THEN 0
             ELSE First({o \in 1..Len(pg.nodes) :
                           pg.nodes[o].tag = "option" /\ IsInside(pg.nodes, o, sel)})
      use == IF opt # 0 THEN opt ELSE any
  IN IF sel = 0 \/ use = 0 THEN NotFound(pg)
     ELSE Acted(opt = 0, sel, 0, [pg.nodes EXCEPT ![sel].value = pg.nodes[use].value],
                pg.focus, pg.view, <<[type |-> "change", el |-> sel]>>)

\* selectElement(text, optText)
selectElement(pg, text, optText) ==
  LET sel == selectTarget(pg.nodes, text)
      opt == IF sel = 0 THEN 0 ELSE optionTarget(pg.nodes, sel, optText)
  IN IF sel = 0 \/ opt = 0 THEN NotFound(pg)
     ELSE Acted(FALSE, sel, 0, [pg.nodes EXCEPT ![sel].value = pg.nodes[opt].value],
                pg.focus, pg.view, <<[type |-> "change", el |-> sel]>>)

IsHoverable(n) ==
  n.tag \in {"button", "a", "input", "textarea", "select"} \/ n.role \in {"button", "menuitem"}
IsDblclickable(n) == n.tag \in {"button", "a", "input", "textarea"} \/ n.role = "button"
IsVerifiable(n) ==
  \/ n.tag \in {"button", "a", "input", "textarea", "select"}
  \/ n.role \in {"button", "menuitem", "link", "tab"}

\* the last strategy of hover, dblclick and verify-element: a leaf whose text matches
leafTarget(nodes, lower) ==
  First({e \in 1..Len(nodes) : matches(textContent(nodes, e), lower) /\ IsLeaf(nodes, e)})

\* the element hoverElement settles on, 0 when none
hoverTarget(nodes, text) ==
  LET lower == toLowerCase(text)
      s1 == First({e \in querySelectorAll(nodes, 0, IsHoverable) :
                     \/ matches(textContent(nodes, e), lower)
                     \/ matches(nodes[e].value, lower)
                     \/ matches(nodes[e].ariaLabel, lower)})
  IN IF s1 # 0 THEN s1 ELSE leafTarget(nodes, lower)

\* hoverElement(text): scrolls the element into view and returns its centre
hoverElement(pg, text) ==
  LET el == hoverTarget(pg.nodes, text)
  IN IF el = 0 THEN NotFound(pg)
     ELSE Acted(FALSE, el, 0, pg.nodes, pg.focus, el, <<>>)

\* the element dblclickElement settles on, 0 when none
dblclickTarget(nodes, text) ==
  LET lower == toLowerCase(text)
      s1 == First({e \in querySelectorAll(nodes, 0, IsDblclickable) :
                     matches(textContent(nodes, e), lower) \/ matches(nodes[e].value, lower)})
  IN IF s1 # 0 THEN s1 ELSE leafTarget(nodes, lower)

\* dblclickElement(text)
dblclickElement(pg, text) ==
  LET el == dblclickTarget(pg.nodes, text)
  IN IF el = 0 THEN NotFound(pg)
     ELSE Acted(FALSE, el, 0, pg.nodes, pg.focus, el, <<[type |-> "dblclick", el |-> el]>>)

verifyElementByClickResolver(nodes, text) == resolveByText(nodes, text, <<>>) # 0

\* verifyElementExists(text)
verifyElementExists(nodes, text) ==
  LET lower == toLowerCase(text)
      s1 == First({e \in querySelectorAll(nodes, 0, IsVerifiable) :
                     \/ matches(textContent(nodes, e), lower)
                     \/ matches(nodes[e].value, lower)
                     \/ matches(nodes[e].ariaLabel, lower)})
      s2 == First({l \in querySelectorAll(nodes, 0, IsLabel) :
                     matches(textContent(nodes, l), lower)})
  IN s1 # 0 \/ s2 # 0 \/ leafTarget(nodes, lower) # 0

\* document.body.innerText: the text of the elements, each on its own line
RECURSIVE innerText(_, _)
innerText(nodes, j) ==
  IF j > Len(nodes) THEN <<>>
  ELSE (IF nodes[j].text = <<>> THEN <<>> ELSE nodes[j].text \o <<"\n">>)
         \o innerText(nodes, j + 1)

\* verifyTextOnPage(text)
verifyTextOnPage(nodes, text) == includes(innerText(nodes, 1), text)

DigitChars == <<"0", "1", "2", "3", "4", "5", "6", "7", "8", "9">>

\* /^e\d+$/.test(target)
IsRef(target) ==
  /\ Len(target) >= 2 /\ target[1] = "e"
  /\ \A k \in 2..Len(target) : \E d \in 1..Len(DigitChars) : DigitChars[d] = target[k]

\* parseInt of a run of decimal digits
RECURSIVE parseInt(_)
parseInt(digits) ==
  IF digits = <<>> THEN 0
  ELSE LET last == digits[Len(digits)]
           d == CHOOSE x \in 1..Len(DigitChars) : DigitChars[x] = last
       IN parseInt(SubSeq(digits, 1, Len(digits) - 1)) * 10 + (d - 1)

clickScriptTextOnly(pg, target, scope) == clickElementByText(pg.nodes, target, scope)

\* buildClickElementJS(target, scope): the ref walker for e<N>, the text
\* strategies otherwise; both scroll the element into view before the click
clickScript(pg, target, scope) ==
  IF IsRef(target) THEN clickElementByRef(pg.nodes, parseInt(Tail(target)) - 1)
  ELSE clickElementByText(pg.nodes, target, scope)

\* the page script that cmdX hands to its first Runtime.evaluate
formScript(c, pg) ==
  LET old(r) == Acted(r.error, r.el, r.clicks, r.nodes, pg.focus, pg.view, <<>>)
      clicked(r) == Acted(r.error, r.el, r.clicks, r.nodes, pg.focus,
                          IF r.error THEN pg.view ELSE r.el, <<>>) @@ [tag |-> r.tag]
  IN CASE c.name = "click" ->
            clicked(clickScript(pg, c.args[1], IF Len(c.args) > 1 THEN c.args[2] ELSE <<>>))
       [] c.name \in {"check", "uncheck"} ->
            old(checkElement(pg.nodes, c.args[1], c.name = "check"))
       [] c.name = "fill" -> focusElement(pg, c.args[1])
       [] c.name = "select" -> selectElement(pg, c.args[1], c.args[2])
       [] c.name = "hover" -> hoverElement(pg, c.args[1])
       [] OTHER -> dblclickElement(pg, c.args[1])

\* how a Runtime.evaluate call ends: with the script's value, with an
\* exception in the page (no value), or with the call rejected
Outcomes == {"value", "exception", "reject"}

failedText(name) ==
  CASE name = "click" -> "Click failed"
    [] name = "dblclick" -> "Dblclick failed"
    [] name = "fill" -> "Fill failed"
    [] name = "select" -> "Select failed"
    [] name = "hover" -> "Hover failed"
    [] name = "press" -> "Press failed"
    [] name = "eval" -> "Eval failed"
    [] name = "goto" -> "Navigation failed"
    [] name \in {"check", "uncheck"} -> "check failed"
    [] OTHER -> "Verify failed"

\* the page after the script, and what cmdX makes of the script's value:
\* `if (!val || val.error) return error Result`, else go on or return success
pageAfter(pg, val) == [pg EXCEPT !.nodes = val.nodes, !.focus = val.focus, !.view = val.view]
resultOf(b, val, next) ==
  IF val.error
  THEN [b EXCEPT !.pc = "done", !.result = Failure("not found"), !.el = val.el,
                 !.clicks = val.clicks, !.events = val.events]
  ELSE [b EXCEPT !.el = val.el, !.clicks = val.clicks, !.events = val.events,
                 !.tag = IF b.cmd.name = "click" THEN val.tag ELSE "",
                 !.result = IF next = "done" THEN Success("success", "done") ELSE NoResult]

\* cmdClick, cmdDblclick, cmdFill, cmdSelect, cmdCheck, cmdHover: the first
\* Runtime.evaluate and what is made of its value
FormEvaluate ==
  \E out \in Outcomes :
    /\ bg.pc = "eval"
    /\ LET next == CASE bg.cmd.name = "fill" -> "clear"
                     [] bg.cmd.name = "hover" -> "move"
                     [] OTHER -> "done"
           b == cdp(bg, "Runtime.evaluate", out # "reject", next, failedText(bg.cmd.name))
       IN CASE out = "reject" -> bg' = b /\ UNCHANGED page
            [] out = "exception" ->
                 /\ bg' = [b EXCEPT !.pc = "done", !.result = Failure("not found")]
                 /\ UNCHANGED page
            [] OTHER ->
                 /\ page' = pageAfter(page, formScript(bg.cmd, page))
                 /\ bg' = resultOf([b EXCEPT !.ran = TRUE], formScript(bg.cmd, page), next)
    /\ UNCHANGED <<snap, notBg>>

\* cmdFill: document.activeElement.value = ''
FillClear ==
  \E ok \in BOOLEAN :
    /\ bg.pc = "clear"
    /\ bg' = cdp(bg, "Runtime.evaluate", ok, "insert", "Fill failed")
    /\ page' = IF ok /\ page.focus # 0
               THEN [page EXCEPT !.nodes[page.focus].value = <<>>]
               ELSE page
    /\ UNCHANGED <<snap, notBg>>

\* cmdFill: Input.insertText types into the focused text field
FillInsert ==
  \E ok \in BOOLEAN :
    /\ bg.pc = "insert"
    /\ bg' = cdp(bg, "Input.insertText", ok, "events", "Fill failed")
    /\ page' = IF /\ ok /\ page.focus # 0
                  /\ IsInputOrTextarea(page.nodes[page.focus])
                  /\ page.nodes[page.focus].type = "text"
               THEN [page EXCEPT !.nodes[page.focus].value = @ \o bg.cmd.args[2]]
               ELSE page
    /\ UNCHANGED <<snap, notBg>>

\* cmdFill: dispatchFillEvents on document.activeElement
FillEvents ==
  \E ok \in BOOLEAN :
    /\ bg.pc = "events"
    /\ LET b == cdp(bg, "Runtime.evaluate", ok, "done", "Fill failed")
       IN bg' = IF ok
                THEN [b EXCEPT !.result = Success("success", "Filled"),
                               !.events = bg.events \o <<[type |-> "input", el |-> page.focus],
                                                          [type |-> "change", el |-> page.focus]>>]
                ELSE b
    /\ UNCHANGED <<page, snap, notBg>>

\* cmdHover: Input.dispatchMouseEvent mouseMoved at the element's centre
HoverMove ==
  \E ok \in BOOLEAN :
    /\ bg.pc = "move"
    /\ LET b == cdp(bg, "Input.dispatchMouseEvent", ok, "done", "Hover failed")
       IN bg' = IF ok THEN [b EXCEPT !.result = Success("success", "Hovered")] ELSE b
    /\ page' = IF ok THEN [page EXCEPT !.pointer = bg.el] ELSE page
    /\ UNCHANGED <<snap, notBg>>

\* cmdPress: Input.dispatchKeyEvent keyDown, then keyUp
PressKey ==
  \E ok \in BOOLEAN :
    /\ bg.pc \in {"keydown", "keyup"}
    /\ LET b == cdp(bg, "Input.dispatchKeyEvent", ok,
                    IF bg.pc = "keydown" THEN "keyup" ELSE "done", "Press failed")
       IN bg' = IF ok /\ bg.pc = "keyup"
                THEN [b EXCEPT !.result = Success("success", "Pressed")]
                ELSE b
    /\ UNCHANGED <<page, snap, notBg>>

\* cmdEval: Runtime.evaluate of the typed expression
EvalExpression ==
  \E out \in Outcomes :
    /\ bg.pc = "expr"
    /\ LET b == cdp(bg, "Runtime.evaluate", out # "reject", "done", "Eval failed")
       IN bg' = CASE out = "value" -> [b EXCEPT !.result = Success("info", "value"),
                                                 !.ran = TRUE]
                  [] out = "exception" -> [b EXCEPT !.result = Failure("Evaluation error")]
                  [] OTHER -> b
    /\ UNCHANGED <<page, snap, notBg>>

\* cmdGoto: Page.navigate; waitForLoad then resolves on the load event or
\* on its timeout (SpecNav) and the command returns
GotoNavigate ==
  \E ok \in BOOLEAN :
    /\ bg.pc = "navigate"
    /\ bg' = cdp(bg, "Page.navigate", ok, "wait", "Navigation failed")
    /\ page' = IF ok THEN [page EXCEPT !.url = <<"https://">> \o bg.cmd.args[1]] ELSE page
    /\ UNCHANGED <<snap, notBg>>

GotoLoaded ==
  /\ bg.pc = "wait"
  /\ bg' = [bg EXCEPT !.pc = "done", !.result = Success("success", "Navigated")]
  /\ UNCHANGED <<page, snap, notBg>>

\* what the page check of a verify command finds
pageCheck(c, pg) ==
  CASE c.name \in {"verify-text", "verify-no-text"} -> verifyTextOnPage(pg.nodes, c.args[1])
    [] c.name \in {"verify-element", "verify-no-element"} ->
         verifyElementExists(pg.nodes, c.args[1])
    [] c.name = "verify-url" -> includes(pg.url, c.args[1])
    [] OTHER -> includes(pg.title, c.args[1])

verdictAlwaysPass(c, found) == Success("success", "PASS")

\* a verdict whose failing Result carries the flag of a failure and the type
\* of an informational answer
verdictFailingAsInfo(c, found) ==
  LET shouldExist == c.name \notin {"verify-no-text", "verify-no-element"}
  IN IF shouldExist = found THEN Success("success", "PASS")
     ELSE [success |-> FALSE, type |-> "info", data |-> "FAIL"]

\* the Result cmdVerifyText / Element / Url / Title make of the check's value
verdict(c, found) ==
  LET shouldExist == c.name \notin {"verify-no-text", "verify-no-element"}
  IN IF shouldExist = found THEN Success("success", "PASS") ELSE Failure("FAIL")

\* cmdVerifyText, cmdVerifyElement, cmdVerifyUrl, cmdVerifyTitle: an
\* evaluation that ends in an exception has no value, which reads as false
\* (text, element) or as the empty string (url, title)
Verify ==
  \E out \in Outcomes :
    /\ bg.pc = "verify"
    /\ LET c == bg.cmd
           b == cdp(bg, "Runtime.evaluate", out # "reject", "done", "Verify failed")
           found == CASE out = "value" -> pageCheck(c, page)
                      [] c.name \in {"verify-url", "verify-title"} -> includes(<<>>, c.args[1])
                      [] OTHER -> FALSE
       IN bg' = IF out = "reject" THEN b
                ELSE [b EXCEPT !.result = verdict(c, found), !.ran = (out = "value")]
    /\ UNCHANGED <<page, snap, notBg>>

InitForm ==
  /\ LibIdle
  /\ SessIdle
  /\ EquivIdle
  /\ RecIdle
  /\ TabIdle
  /\ \E nodes \in FormPages : page = Document(nodes)
  /\ bg = IdleExecutor
  /\ snap = <<>>
  /\ nav = IdleNav(0, 1)

NextForm ==
  FormIssue \/ FormAttach \/ FormEvaluate \/ FillClear \/ FillInsert \/ FillEvents
    \/ HoverMove \/ PressKey \/ EvalExpression \/ GotoNavigate \/ GotoLoaded \/ Verify

SpecForm == InitForm /\ [][NextForm]_vars


\* the resolver of command c finds no element (for select: no option) on nodes
NoMatch(c, nodes) ==
  CASE c.name = "click" /\ IsRef(c.args[1]) ->
         parseInt(Tail(c.args[1])) \notin 1..Len(nodes)
    [] c.name = "click" ->
         resolveByText(nodes, c.args[1], IF Len(c.args) > 1 THEN c.args[2] ELSE <<>>) = 0
    [] c.name = "dblclick" -> dblclickTarget(nodes, c.args[1]) = 0
    [] c.name = "fill" -> focusTarget(nodes, c.args[1]) = 0
    [] c.name = "hover" -> hoverTarget(nodes, c.args[1]) = 0
    [] c.name = "select" ->
         \/ selectTarget(nodes, c.args[1]) = 0
         \/ optionTarget(nodes, selectTarget(nodes, c.args[1]), c.args[2]) = 0
    [] OTHER -> checkElement(nodes, c.args[1], c.name = "check").error

\* C17: when the resolver of click, dblclick, fill, select, check/uncheck or
\* hover finds no matching element (for select, no matching option), the
\* command returns an error Result at once and the page is left as it was:
\* nothing is clicked, focused, changed, dispatched, typed or moved.
NoMatchNoMutation ==
  [][(/\ bg.pc = "eval" /\ NoMatch(bg.cmd, page.nodes)
      /\ bg'.issued = Append(bg.issued, Call("Runtime.evaluate", TRUE)))
       => /\ bg'.pc = "done"
          /\ bg'.result.type = "error" /\ ~bg'.result.success
          /\ page' = page
          /\ bg'.clicks = 0 /\ bg'.events = <<>>]_vars

NoMatchWitness ==
  /\ bg.pc = "done" /\ bg.cmd = Parsed("select", << <<"color">>, <<"green">> >>)
  /\ Issued("Runtime.evaluate", TRUE)
  /\ bg.result.type = "error"



\* the command being handled has fewer arguments than it requires
TooFewArgs == bg.cmd.name \in Known /\ Len(bg.cmd.args) < required(bg.cmd.name)

\* C18: a command given fewer arguments than it requires makes no driver
\* call for the tab, and the Result it returns is the Usage error.
UsageBeforeDriverCall ==
  (TooFewArgs /\ bg.pc # "idle")
    => /\ bg.issued = <<>>
       /\ bg.pc = "done" => bg.result = Failure("Usage")



ResultTypesOfCommands == {"success", "error", "info", "snapshot", "screenshot"}

\* C19: handleCommand ends with a Result {success, type, data}; a rejected
\* attach or driver call is the last call of its command (it is not retried
\* and nothing is issued after it) and the command returns an error Result.
FailureEndsCommand ==
  /\ bg.pc = "done" => /\ bg.result.type \in ResultTypesOfCommands
                       /\ bg.result.success \in BOOLEAN
                       /\ bg.result.data # ""
  /\ \A k \in 1..Len(bg.issued) :
       ~bg.issued[k].ok => /\ k = Len(bg.issued)
                           /\ bg.pc = "done"
                           /\ bg.result.type = "error" /\ ~bg.result.success

FailureEndsWitness ==
  /\ bg.pc = "done" /\ bg.cmd.name = "fill"
  /\ Len(bg.issued) = 2 /\ bg.issued[1].ok /\ ~bg.issued[2].ok

\* C38: every Result a command returns has success = TRUE exactly when its
\* type is not "error", so the marker the session runner derives from the
\* type (fail for "error", pass otherwise) agrees with the success flag.
SuccessFlagAgreesWithType ==
  bg.pc = "done" =>
    /\ bg.result.success <=> bg.result.type # "error"
    /\ (IF bg.result.type = "error" THEN "fail" ELSE "pass")
         = (IF bg.result.success THEN "pass" ELSE "fail")

SuccessFlagWitness ==
  /\ bg.pc = "done" /\ bg.cmd.name = "verify-title"
  /\ bg.result = Failure("FAIL") /\ bg.ran

\* C39: verify-no-text and verify-no-element return PASS only when the page
\* check ran to its end and returned false; an evaluation that ends in an
\* exception or yields no value does not give PASS.
AbsenceNeedsCompletedCheck ==
  (/\ bg.pc = "done"
   /\ bg.cmd.name \in {"verify-no-text", "verify-no-element"}
   /\ bg.result = Success("success", "PASS"))
  => (bg.ran /\ ~pageCheck(bg.cmd, page))



\* the expectation a verify command states, on the page as it is
Expected(c, pg) ==
  CASE c.name = "verify-text" -> includes(innerText(pg.nodes, 1), c.args[1])
    [] c.name = "verify-no-text" -> ~includes(innerText(pg.nodes, 1), c.args[1])
    [] c.name = "verify-element" -> verifyElementExists(pg.nodes, c.args[1])
    [] c.name = "verify-no-element" -> ~verifyElementExists(pg.nodes, c.args[1])
    [] c.name = "verify-url" -> includes(pg.url, c.args[1])
    [] OTHER -> includes(pg.title, c.args[1])

\* C20: when the page check of a verify command has run, the command
\* returns a Result whose success is true with PASS text exactly when the
\* stated expectation holds of the page, and false with FAIL text otherwise.
VerifyReportsExpectation ==
  (bg.pc = "done" /\ bg.ran /\ entry(bg.cmd.name) = "verify")
    => /\ bg.result.success = Expected(bg.cmd, page)
       /\ bg.result.data = IF Expected(bg.cmd, page) THEN "PASS" ELSE "FAIL"
       /\ bg.result.type = IF Expected(bg.cmd, page) THEN "success" ELSE "error"

VerifyFailWitness ==
  /\ bg.pc = "done" /\ bg.ran
  /\ bg.cmd = Parsed("verify-no-text", << <<"Delete">> >>)
  /\ bg.result = Failure("FAIL")



CarriesText(nodes, T) ==
  \E e \in 1..Len(nodes) :
    LET n == nodes[e]
        txt == matches(textContent(nodes, e), toLowerCase(T))
    IN \/ IsVerifiable(n) /\ (txt \/ matches(n.value, toLowerCase(T))
                                  \/ matches(n.ariaLabel, toLowerCase(T)))
       \/ n.tag = "label" /\ txt
       \/ IsLeaf(nodes, e) /\ txt

TargetTexts == {c.args[1] : c \in {d \in FormCommands : Len(d.args) > 0}}
SameTarget(a, b) == toLowerCase(trim(a)) = toLowerCase(trim(b))

\* C31: when click, fill, select, check/uncheck, hover or dblclick is given a
\* target, it acts on the element that the same command resolves for any
\* target differing only in letter case or surrounding white space.
TargetCaseAndSpaceIgnored ==
  [][(bg.pc = "eval" /\ bg'.ran /\ ~bg.ran) =>
       \A t \in TargetTexts :
         LET other == formScript([bg.cmd EXCEPT !.args[1] = t], page)
         IN (SameTarget(t, bg.cmd.args[1]) /\ ~other.error) =>
              (bg'.el = other.el /\ bg'.result.type # "error")]_vars

(***************************************************************************)
(* The parser (lib/commands.js, lib/converter.js).  A raw line is a        *)
(* sequence of characters; a word such as "goto" stands for a run of       *)
(* letters and is handled as one character that is neither white space nor *)
(* a quote.                                                                *)
(***************************************************************************)
Chars == {"a", "B", " ", "\t", "\"", "'", "#"}
Lines == UNION {[1..n -> Chars] : n \in 0..MaxChars}

\* the scanning loop of tokenize (converter.js): characters i.. of trimmed
RECURSIVE tokenizeFrom(_, _, _, _, _, _)
tokenizeFrom(trimmed, i, tokens, current, inQuote, quoteChar) ==
  IF i > Len(trimmed)
  THEN IF current # <<>> THEN Append(tokens, current) ELSE tokens
  ELSE LET ch == trimmed[i]
       IN IF inQuote
          THEN IF ch = quoteChar
               THEN tokenizeFrom(trimmed, i + 1, Append(tokens, current), <<>>, FALSE, quoteChar)
               ELSE tokenizeFrom(trimmed, i + 1, tokens, Append(current, ch), TRUE, quoteChar)
          ELSE IF ch \in {"\"", "'"}
               THEN tokenizeFrom(trimmed, i + 1, tokens, current, TRUE, ch)
          ELSE IF ch \in {" ", "\t"}
               THEN tokenizeFrom(trimmed, i + 1,
                                 IF current # <<>> THEN Append(tokens, current) ELSE tokens,
                                 <<>>, FALSE, quoteChar)
          ELSE tokenizeFrom(trimmed, i + 1, tokens, Append(current, ch), FALSE, quoteChar)

\* tokenize(raw)
tokenize(raw) ==
  LET trimmed == trim(raw)
  IN IF trimmed = <<>> \/ Head(trimmed) = "#" THEN <<>>
     ELSE tokenizeFrom(trimmed, 1, <<>>, <<>>, FALSE, "")

\* the scanning loop of parseCommand (commands.js)
RECURSIVE parseFrom(_, _, _, _, _, _)
parseFrom(trimmed, i, tokens, current, inQuote, quoteChar) ==
  IF i > Len(trimmed)
  THEN IF current # <<>> THEN Append(tokens, current) ELSE tokens
  ELSE LET ch == trimmed[i]
       IN IF inQuote
          THEN IF ch = quoteChar
               THEN parseFrom(trimmed, i + 1, Append(tokens, current), <<>>, FALSE, quoteChar)
               ELSE parseFrom(trimmed, i + 1, tokens, Append(current, ch), TRUE, quoteChar)
          ELSE IF ch \in {"\"", "'"}
               THEN parseFrom(trimmed, i + 1, tokens, current, TRUE, ch)
          ELSE IF ch \in {" ", "\t"}
               THEN parseFrom(trimmed, i + 1,
                              IF current # <<>> THEN Append(tokens, current) ELSE tokens,
                              <<>>, FALSE, quoteChar)
          ELSE parseFrom(trimmed, i + 1, tokens, Append(current, ch), FALSE, quoteChar)

Null == [null |-> TRUE]

parseCommandAsTyped(raw) ==
  LET trimmed == trim(raw)
      tokens == parseFrom(trimmed, 1, <<>>, <<>>, FALSE, "")
  IN IF trimmed = <<>> \/ Head(trimmed) = "#" THEN Null
     ELSE IF Len(tokens) = 0 THEN Null
     ELSE [null |-> FALSE, command |-> Head(tokens), args |-> Tail(tokens)]

\* parseCommand(raw)
parseCommand(raw) ==
  LET trimmed == trim(raw)
      tokens == parseFrom(trimmed, 1, <<>>, <<>>, FALSE, "")
  IN IF trimmed = <<>> \/ Head(trimmed) = "#" THEN Null
     ELSE IF Len(tokens) = 0 THEN Null
     ELSE [null |-> FALSE, command |-> toLowerCase(Head(tokens)), args |-> Tail(tokens)]

\* a raw line is handed to the parser
ParseLine ==
  /\ lib.fn = "none"
  /\ lib' = [lib EXCEPT !.fn = "parseCommand",
                        !.out = [tokens |-> tokenize(lib.input),
                                 parsed |-> parseCommand(lib.input)]]
  /\ UNCHANGED notLib

InitParse ==
  /\ SessIdle
  /\ EquivIdle
  /\ RecIdle
  /\ TabIdle
  /\ BgIdle
  /\ \E raw \in Lines : lib = [fn |-> "none", input |-> raw, out |-> <<>>]

NextParse == ParseLine

SpecParse == InitParse /\ [][NextParse]_vars



\* the position of the first quote character of t, 0 when it has none
FirstQuote(t) ==
  LET Q == {q \in 1..Len(t) : t[q] \in {"\"", "'"}}
  IN IF Q = {} THEN 0 ELSE CHOOSE q \in Q : \A r \in Q : q <= r

\* the position after q of the next occurrence of the character at q, 0 when none
Closing(t, q) ==
  LET R == {r \in (q + 1)..Len(t) : t[r] = t[q]}
  IN IF R = {} THEN 0 ELSE CHOOSE r \in R : \A x \in R : r <= x

BufferLines ==
  { <<"goto", " ", "a">>, <<"GOTO", " ", "a">>, <<"click">>, <<"click", " ", "\"", "\"">>,
    <<"click", " ", "e1">>, <<"fill", " ", "a">>, <<"snapshot">>, <<"frob">>,
    <<"#", "a">>, <<" ", "#", "a">>, <<" ">>, <<>> }
Buffers == UNION {[1..n -> BufferLines] : n \in 0..MaxExport}

NeedTarget ==
  {"goto", "open", "click", "c", "dblclick", "check", "uncheck", "hover", "press", "p",
   "verify-text", "verify-no-text", "verify-element", "verify-no-element", "verify-url",
   "verify-title"}
NeedTwo == {"fill", "f", "select"}
NoArgs == {"screenshot", "eval", "go-back", "back", "go-forward", "forward", "reload"}

Statement(cmd) == [null |-> FALSE, kind |-> "statement", src |-> cmd]
Comment(cmd) == [null |-> FALSE, kind |-> "comment", src |-> cmd]

\* pwToPlaywright(cmd)
pwToPlaywright(cmd) ==
  LET tokens == tokenize(cmd)
      command == toLowerCase(Head(tokens))
      args == Tail(tokens)
  IN IF tokens = <<>> THEN Null
     ELSE IF command \in {<<c>> : c \in NeedTarget}
     THEN IF args = <<>> \/ args[1] = <<>> THEN Null
          ELSE IF command \in {<<"click">>, <<"c">>} /\ args[1] = <<"e1">> THEN Comment(cmd)
          ELSE Statement(cmd)
     ELSE IF command \in {<<c>> : c \in NeedTwo}
     THEN IF Len(args) < 2 THEN Null ELSE Statement(cmd)
     ELSE IF command \in {<<"snapshot">>, <<"s">>} THEN Comment(cmd)
     ELSE IF command \in {<<c>> : c \in NoArgs} THEN Statement(cmd)
     ELSE Comment(cmd)

Wrapper == [open |-> <<"import", "", "test(">>, close |-> <<"});">>]

\* the loop of exportFromLines over cmds[i..]
RECURSIVE exportLoop(_, _)
exportLoop(cmds, i) ==
  IF i > Len(cmds) THEN <<>>
  ELSE LET cmd == cmds[i]
       IN IF cmd # <<>> /\ Head(cmd) = "#"
          THEN <<Comment(cmd)>> \o exportLoop(cmds, i + 1)
          ELSE IF pwToPlaywright(cmd).null THEN exportLoop(cmds, i + 1)
          ELSE <<pwToPlaywright(cmd)>> \o exportLoop(cmds, i + 1)

\* exportFromLines(cmds)
exportFromLines(cmds) == Wrapper.open \o exportLoop(cmds, 1) \o Wrapper.close

\* editor.value.split("\n").filter((l) => l.trim())
RECURSIVE editorLines(_)
editorLines(buffer) ==
  IF buffer = <<>> THEN <<>>
  ELSE (IF trim(Head(buffer)) # <<>> THEN <<Head(buffer)>> ELSE <<>>)
         \o editorLines(Tail(buffer))

\* the Export button / the `export` command: an empty buffer exports nothing
ExportClick ==
  /\ lib.fn = "none"
  /\ lib' = [lib EXCEPT !.fn = "export",
                        !.out = IF editorLines(lib.input) = <<>> THEN <<>>
                                ELSE exportFromLines(editorLines(lib.input))]
  /\ UNCHANGED notLib

InitExport ==
  /\ SessIdle
  /\ EquivIdle
  /\ RecIdle
  /\ TabIdle
  /\ BgIdle
  /\ \E buffer \in Buffers : lib = [fn |-> "none", input |-> buffer, out |-> <<>>]

NextExport == ExportClick

SpecExport == InitExport /\ [][NextExport]_vars

\* C21: the export of a buffer with a non-blank line is the fixed wrapper
\* around exactly one line for each non-blank source line, in source order:
\* a code comment for a comment line, a statement or a code comment otherwise.
ExportKeepsEveryLine ==
  (lib.fn = "export" /\ editorLines(lib.input) # <<>>) =>
    LET src == editorLines(lib.input)
        n == Len(Wrapper.open)
        body == SubSeq(lib.out, n + 1, Len(lib.out) - Len(Wrapper.close))
    IN /\ SubSeq(lib.out, 1, n) = Wrapper.open
       /\ Len(body) = Len(src)
       /\ \A i \in 1..Len(src) :
            /\ body[i].src = src[i]
            /\ Head(trim(src[i])) = "#" => body[i].kind = "comment"



\* the click command on a ref target e<k> whose page script returned
RefClicked(k) ==
  /\ bg.pc = "eval" /\ bg.cmd.name = "click" /\ IsRef(bg.cmd.args[1])
  /\ parseInt(Tail(bg.cmd.args[1])) = k
  /\ bg'.ran

\* C23: on a page of N elements in document order, `click e<k>` with
\* 1 <= k <= N clicks the k-th element and nothing else and reports success
\* with that element's tag name; with k = 0 or k > N it clicks nothing and
\* returns a not-found error.  What the text strategies would resolve the
\* target to plays no part.
RefClicksKthElement ==
  [][\A k \in 0..(Len(page.nodes) + 1) :
       RefClicked(k) =>
         IF k \in 1..Len(page.nodes)
         THEN /\ bg'.el = k /\ bg'.clicks = 1 /\ bg'.tag = page.nodes[k].tag
              /\ bg'.result.success
              /\ page'.nodes = domClick(page.nodes, k)
         ELSE /\ bg'.clicks = 0 /\ page' = page
              /\ bg'.result = Failure("not found")]_vars

RefClicksWitness ==
  /\ bg.pc = "done" /\ bg.cmd = Parsed("click", << <<"e", "2">> >>)
  /\ bg.ran /\ bg.el = 2 /\ bg.tag = "input"



(***************************************************************************)
(* The snapshot formatter (lib/formatter.js) as a function of any node list *)
(***************************************************************************)
AxNode(role, name, ignored) == [role |-> role, name |-> name, ignored |-> ignored]
AxNodes ==
  {AxNode(r, n, FALSE) : r \in {"", "none", "generic", "InlineTextBox", "StaticText", "button"},
                         n \in {<<>>, <<"a">>}}
    \cup {AxNode("button", <<"a">>, TRUE)}
AxTrees == UNION {[1..n -> AxNodes] : n \in 0..MaxAx}

RECURSIVE formatLoopCountingAll(_, _, _)
formatLoopCountingAll(nodes, i, refCounter) ==
  IF i > Len(nodes) THEN <<>>
  ELSE LET node == nodes[i]
       IN IF \/ node.role \in {"", "none", "generic", "InlineTextBox"}
             \/ node.role = "StaticText" /\ node.name = <<>>
             \/ node.ignored
          THEN formatLoopCountingAll(nodes, i + 1, refCounter + 1)
          ELSE <<[role |-> node.role, name |-> node.name, ref |-> refCounter]>>
                 \o formatLoopCountingAll(nodes, i + 1, refCounter + 1)

\* the loop of formatAccessibilityTree over nodes[i..]: a line is its role,
\* its name and the number of its ref
RECURSIVE formatLoop(_, _, _)
formatLoop(nodes, i, refCounter) ==
  IF i > Len(nodes) THEN <<>>
  ELSE LET node == nodes[i]
       IN IF \/ node.role \in {"", "none", "generic", "InlineTextBox"}
             \/ node.role = "StaticText" /\ node.name = <<>>
             \/ node.ignored
          THEN formatLoop(nodes, i + 1, refCounter)
          ELSE <<[role |-> node.role, name |-> node.name, ref |-> refCounter]>>
                 \o formatLoop(nodes, i + 1, refCounter + 1)

\* formatAccessibilityTree(nodes), with its lines spelled out
formatLines(nodes) ==
  IF nodes = <<>> THEN <<"(empty tree)">>
  ELSE IF formatLoop(nodes, 1, 1) = <<>> THEN <<"(empty tree)">>
  ELSE formatLoop(nodes, 1, 1)

FormatTree ==
  /\ lib.fn = "none"
  /\ lib' = [lib EXCEPT !.fn = "formatAccessibilityTree", !.out = formatLines(lib.input)]
  /\ UNCHANGED notLib

InitFormat ==
  /\ SessIdle
  /\ EquivIdle
  /\ RecIdle
  /\ TabIdle
  /\ BgIdle
  /\ \E nodes \in AxTrees : lib = [fn |-> "none", input |-> nodes, out |-> <<>>]

NextFormat == FormatTree

SpecFormat == InitFormat /\ [][NextFormat]_vars

\* a node that the exclusion rules let through
Survives(node) ==
  /\ node.role \notin {"", "none", "generic", "InlineTextBox"}
  /\ ~(node.role = "StaticText" /\ node.name = <<>>)
  /\ ~node.ignored

\* C24: formatAccessibilityTree emits one line for each node that survives
\* the exclusion rules, in input order, the i-th line carrying ref e<i>; when
\* no node survives it returns the single line "(empty tree)".
RefsRunWithoutGap ==
  lib.fn = "formatAccessibilityTree" =>
    LET kept == SelectSeq(lib.input, Survives)
    IN IF kept = <<>> THEN lib.out = <<"(empty tree)">>
       ELSE /\ Len(lib.out) = Len(kept)
            /\ \A i \in 1..Len(kept) :
                 lib.out[i] = [role |-> kept[i].role, name |-> kept[i].name, ref |-> i]

RefsRunWitness ==
  /\ lib.fn = "formatAccessibilityTree"
  /\ Len(lib.input) = 3 /\ Len(lib.out) = 2
  /\ ~Survives(lib.input[1])
  /\ lib.out[2].ref = 2

(***************************************************************************)
(* Recording sessions (background.js startRecording/stopRecording, the     *)
(* port between panel and worker, panel.js record button)                  *)
(***************************************************************************)
StartIds == 1..MaxStarts
\* the start requests suspended at an await
StartPending(w) == {k \in StartIds : w.starts[k] \in {"attach", "enable", "addScript", "inject"}}

\* an await of startRecording rejects: its catch answers {success: false} and
\* the panel takes the recording class off the button
startFailed(w, k) == [w EXCEPT !.starts[k] = "failed", !.btn = FALSE]

\* chrome.debugger.detach: the session ends and its new-document scripts with it
detach(w) == [w EXCEPT !.session = FALSE, !.scripts = {}]

\* startRecording up to its first await; the k-th request's listener is k
startRecording(w, k) ==
  IF w.attachedTabs
  THEN [w EXCEPT !.onEvent = @ \cup {k}, !.starts[k] = "addScript"]
  ELSE [w EXCEPT !.starts[k] = "attach"]

\* stopRecording from "Detach debugger so the yellow bar goes away" to its return
stopDetach(w) ==
  [(IF w.attachedTabs THEN detach([w EXCEPT !.attachedTabs = FALSE]) ELSE w)
     EXCEPT !.stop = "done"]

\* stopRecording from "Clean up the recorder in the current page" on
stopCleanup(w) == IF w.attachedTabs THEN [w EXCEPT !.stop = "cleanup"] ELSE stopDetach(w)

\* stopRecording up to its first await
stopRecording(w) ==
  IF w.recordingTabs # 0
  THEN LET u == [w EXCEPT !.onEvent = @ \ {w.recordingTabs}, !.stopRec = w.recordingTabs]
       IN IF u.attachedTabs THEN [u EXCEPT !.stop = "removeScript"]
          ELSE stopCleanup([u EXCEPT !.recordingTabs = 0])
  ELSE stopCleanup([w EXCEPT !.stopRec = 0])

\* the record button toggles its class and sends pw-record-start or pw-record-stop
RecordClick ==
  /\ IF ~tab.btn
     THEN \E k \in StartIds :
            /\ tab.starts[k] = "none"
            /\ \A j \in 1..(k - 1) : tab.starts[j] # "none"
            /\ tab' = startRecording([tab EXCEPT !.btn = TRUE,
                                                !.stop = IF @ = "done" THEN "idle" ELSE @], k)
     ELSE /\ tab.stop \in {"idle", "done"}
          /\ tab' = stopRecording([tab EXCEPT !.btn = FALSE, !.stop = "idle"])
  /\ UNCHANGED notTab

\* ensureAttached: chrome.debugger.attach settles; it rejects when a session exists
StartAttach(k) ==
  /\ tab.starts[k] = "attach"
  /\ tab' = IF tab.session THEN startFailed(tab, k)
            ELSE [tab EXCEPT !.session = TRUE, !.starts[k] = "enable"]
  /\ UNCHANGED notTab

\* ensureAttached: Page.enable and Runtime.enable settle; then attachedTabs.add,
\* onEvent.addListener and the Page.addScriptToEvaluateOnNewDocument call
StartEnable(k) ==
  /\ tab.starts[k] = "enable"
  /\ tab' = IF ~tab.session THEN startFailed(tab, k)
            ELSE [tab EXCEPT !.attachedTabs = TRUE, !.onEvent = @ \cup {k},
                             !.starts[k] = "addScript"]
  /\ UNCHANGED notTab

\* Page.addScriptToEvaluateOnNewDocument settles; then the Runtime.evaluate call
StartAddScript(k) ==
  /\ tab.starts[k] = "addScript"
  /\ tab' = IF ~tab.session THEN startFailed(tab, k)
            ELSE [tab EXCEPT !.scripts = @ \cup {k}, !.starts[k] = "inject"]
  /\ UNCHANGED notTab

\* Runtime.evaluate of the recorder settles; then recordingTabs.set
StartInject(k) ==
  /\ tab.starts[k] = "inject"
  /\ tab' = IF ~tab.session THEN startFailed(tab, k)
            ELSE [tab EXCEPT !.active = TRUE, !.recordingTabs = k, !.starts[k] = "done"]
  /\ UNCHANGED notTab

\* Page.removeScriptToEvaluateOnNewDocument settles (a rejection is ignored);
\* then recordingTabs.delete
StopRemoveScript ==
  /\ tab.stop = "removeScript"
  /\ tab' = stopCleanup([tab EXCEPT !.scripts = IF tab.session THEN @ \ {tab.stopRec} ELSE @,
                                    !.recordingTabs = 0])
  /\ UNCHANGED notTab

\* the browser ends the idle service worker: its maps, listeners and suspended
\* handlers are gone, the panel's port disconnects and its retry timer starts;
\* the debugger session ends with the worker or is left attached
Restart ==
  /\ tab.port = "open"
  /\ tab.ports < MaxPorts
  /\ \E left \in {tab.session, FALSE} :
       tab' = [tab EXCEPT !.recordingTabs = 0, !.attachedTabs = FALSE, !.panelPorts = FALSE,
                          !.onEvent = {}, !.starts = [k \in StartIds |-> "none"],
                          !.stop = IF @ = "done" THEN "done" ELSE "idle", !.stopRec = 0,
                          !.session = left, !.scripts = IF left THEN @ ELSE {},
                          !.port = "retry", !.btn = @ /\ StartPending(tab) = {}]
  /\ UNCHANGED notTab

\* connectPort after 500 ms, and the worker's onConnect listener
Reconnect ==
  /\ tab.port = "retry"
  /\ tab' = detach([tab EXCEPT !.onEvent = @ \ {tab.recordingTabs}, !.recordingTabs = 0,
                               !.attachedTabs = FALSE, !.panelPorts = TRUE, !.port = "open",
                               !.ports = @ + 1])
  /\ UNCHANGED notTab

\* the recorder's closure right after its installation
FreshRecorder ==
  [active |-> TRUE, listening |-> TRUE, fillTimer |-> FALSE, scheduled |-> FALSE,
   fillTarget |-> "null", fillValue |-> ""]

\* the recorder's closure in the page: the user has typed "a" into fieldA when
\* a fill is pending
pageRecorder(w) ==
  IF w.pending
  THEN [FreshRecorder EXCEPT !.fillTimer = TRUE, !.scheduled = TRUE,
                             !.fillTarget = "fieldA", !.fillValue = "a"]
  ELSE FreshRecorder

\* send(command): console.debug("__pw:" + command)
debugArgs(sent) == [i \in DOMAIN sent |-> <<"__pw:", sent[i]>>]

\* the arguments of the console.debug calls handleClick makes for a click on el
consoleDebug(w, el) ==
  debugArgs(clickTry(pageRecorder(w), el, FALSE) \o
              (IF clickThrows(pageRecorder(w), el) THEN <<ErrorReport>> ELSE <<>>))

\* the console.debug calls of flushFill, run by the timer
timerDebug(w) == debugArgs(flushFillCmds(pageRecorder(w)))

\* the console.debug calls of window.__pwRecorderCleanup
cleanupDebug(w) == debugArgs(flushPendingCmds(pageRecorder(w)))

\* the commands startRecording's listener posts for one Runtime.consoleAPICalled
recordedCommand(arg) == IF arg[1] = "__pw:" THEN <<arg[2]>> ELSE <<>>

\* the command startRecording's listener posts for a Page.frameNavigated of
\* the main frame
gotoCommand == [cmd |-> "goto", target |-> "url", value |-> ""]

\* what the panel's port.onMessage appends when each of the commands is posted
\* by every registered listener
posted(w, cmds) ==
  LET n == IF w.session /\ w.panelPorts THEN Cardinality(w.onEvent) ELSE 0
  IN [i \in 1..(Len(cmds) * n) |-> cmds[((i - 1) \div n) + 1]]

\* what the panel appends for the console calls of the page
appended(w, args) ==
  posted(w, [i \in DOMAIN args |-> recordedCommand(args[i])[1]])

\* Runtime.evaluate of __pwRecorderCleanup settles (a rejection is ignored)
StopCleanup ==
  /\ tab.stop = "cleanup"
  /\ tab' = stopDetach(IF tab.session /\ tab.active
                       THEN [tab EXCEPT !.active = FALSE, !.pending = FALSE,
                                        !.editor = @ \o appended(tab, cleanupDebug(tab))]
                       ELSE tab)
  /\ UNCHANGED notTab

\* the user clicks el on the inspected page
UserAction(el) ==
  /\ tab.acts < MaxActions
  /\ tab' = IF tab.active
            THEN [tab EXCEPT !.acts = @ + 1, !.pending = FALSE,
                             !.editor = @ \o appended(tab, consoleDebug(tab, el))]
            ELSE [tab EXCEPT !.acts = @ + 1]
  /\ UNCHANGED notTab

\* the user types "a" into a text field of the page: handleInput
UserInput ==
  /\ tab.acts < MaxActions
  /\ tab' = [tab EXCEPT !.acts = @ + 1, !.pending = tab.active]
  /\ UNCHANGED notTab

\* the recorder's debounce timer elapses
FillTimeout ==
  /\ tab.pending
  /\ tab' = [tab EXCEPT !.pending = FALSE, !.editor = @ \o appended(tab, timerDebug(tab))]
  /\ UNCHANGED notTab

\* the user sends the tab to another page: the old document and its recorder
\* are gone, the new document runs the registered scripts, and the browser
\* reports Page.frameNavigated
Navigate ==
  /\ tab.acts < MaxActions
  /\ tab' = [tab EXCEPT !.acts = @ + 1, !.pending = FALSE, !.active = tab.scripts # {},
                        !.editor = @ \o posted(tab, <<gotoCommand>>)]
  /\ UNCHANGED notTab

\* an ordinary command of the panel: handleCommand's ensureAttached
Command ==
  /\ ~tab.attachedTabs /\ ~tab.session
  /\ tab' = [tab EXCEPT !.session = TRUE, !.attachedTabs = TRUE,
                        !.stop = IF @ = "done" THEN "idle" ELSE @]
  /\ UNCHANGED notTab

InitRecording ==
  /\ LibIdle
  /\ SessIdle
  /\ EquivIdle
  /\ RecIdle
  /\ TabIdle
  /\ BgIdle

NextRecording ==
  \/ RecordClick
  \/ \E k \in StartIds : StartAttach(k) \/ StartEnable(k) \/ StartAddScript(k) \/ StartInject(k)
  \/ StopRemoveScript \/ StopCleanup
  \/ Restart \/ Reconnect
  \/ \E el \in {"button", "icon"} : UserAction(el)
  \/ UserInput \/ FillTimeout \/ Navigate \/ Command

SpecRecording == InitRecording /\ [][NextRecording]_vars

\* C26: once stopRecording has returned, and until the next start request,
\* the tab has no recording entry, no listener of a start request is
\* registered on chrome.debugger.onEvent and no debugger is attached, also
\* when the stop request came while a start request was suspended.
StopLeavesNothing ==
  tab.stop = "done" =>
    /\ tab.recordingTabs = 0
    /\ tab.onEvent = {}
    /\ ~tab.session /\ ~tab.attachedTabs

\* C27: a start request for a tab that is already recorded installs nothing:
\* no action of the user adds the same command to the panel twice, and after
\* one stop has returned an action adds none.
StartIsIdempotent ==
  [][tab'.acts # tab.acts =>
       LET added == SubSeq(tab'.editor, Len(tab.editor) + 1, Len(tab'.editor))
       IN /\ \A i, j \in DOMAIN added : i # j => added[i] # added[j]
          /\ tab.stop = "done" => tab'.editor = tab.editor]_vars

\* C29: no line of the panel's editor is the report of a fault inside the
\* recorder.
FaultReportStaysOut == \A i \in DOMAIN tab.editor : tab.editor[i] # ErrorReport

\* C25: when the port was lost and the panel has connected again, and the
\* panel still shows a recording with no start request pending, a click of the
\* user on a button adds its command to the panel.
RecordingSurvivesReconnect ==
  [][(/\ UserAction("button")
      /\ tab.ports > 1 /\ tab.port = "open"
      /\ tab.btn /\ StartPending(tab) = {}) =>
       /\ Len(tab'.editor) > Len(tab.editor)
       /\ tab'.editor[Len(tab'.editor)] = [cmd |-> "click", target |-> "button", value |-> ""]]_vars

\* C32: when the stop of a recording reaches the page's recorder while a
\* fill is pending there, the fill command is appended to the panel's editor.
PendingFillSurvivesStop ==
  [][(/\ tab.stop = "cleanup" /\ tab'.stop = "done" /\ tab.stopRec # 0
      /\ tab.session /\ tab.active /\ tab.pending) =>
       tab'.editor = Append(tab.editor, [cmd |-> "fill", target |-> "fieldA", value |-> "a"])]_vars

\* C33: while the tab has no recording entry and no start request is pending,
\* nothing is appended to the panel's editor, whatever the page logs and
\* wherever the tab navigates.
OnlyRecordingForwards ==
  [][(tab.recordingTabs = 0 /\ StartPending(tab) = {}) => tab'.editor = tab.editor]_vars


(***************************************************************************)
(* The recorder's quoted arguments read back by parseCommand                *)
(* (content/recorder.js, lib/commands.js).  A text is a sequence of         *)
(* characters, as in the parser.                                            *)
(***************************************************************************)
QuotedChars == {"a", " ", "'", "\"", "\\"}
QuotedTexts == UNION {[1..n -> QuotedChars] : n \in 1..MaxQuoted}

\* s.replace(/"/g, '\\"')
RECURSIVE escapeQuotes(_)
escapeQuotes(s) ==
  IF s = <<>> THEN <<>>
  ELSE (IF Head(s) = "\"" THEN <<"\\", "\"">> ELSE <<Head(s)>>) \o escapeQuotes(Tail(s))

\* quote(s)
quote(s) == <<"\"">> \o escapeQuotes(s) \o <<"\"">>

\* the command word of a recorded line, as characters
commandWord(route) ==
  CASE route = "click" -> <<"c", "l", "i", "c", "k">>
    [] route = "fill" -> <<"f", "i", "l", "l">>
    [] OTHER -> <<"c", "h", "e", "c", "k">>

\* the line the recorder sends for a text: a click on an element whose
\* locator is the text, a fill of the field "a" with the text, or a click on a
\* checkbox whose item context is the text
recordedLine(route, s) ==
  CASE route = "click" -> commandWord(route) \o <<" ">> \o quote(s)
    [] route = "fill" -> commandWord(route) \o <<" ">> \o quote(<<"a">>)
                           \o <<" ", "\"">> \o escapeQuotes(s) \o <<"\"">>
    [] OTHER -> commandWord(route) \o <<" ", "\"">> \o s \o <<"\"">>

Routes == {"click", "fill", "check"}

\* the arguments the line is meant to carry
recordedArgs(route, s) == IF route = "fill" THEN <<(<<"a">>), s>> ELSE <<s>>

\* the background hands the recorded line to the panel, and a later Run
\* hands it to parseCommand
RecordAndParse ==
  /\ lib.fn = "none"
  /\ LET line == recordedLine(lib.input.route, lib.input.text)
     IN lib' = [lib EXCEPT !.fn = "roundTrip",
                           !.out = [line |-> line, parsed |-> parseCommand(line)]]
  /\ UNCHANGED notLib

\* getItemContext returns a trimmed text; a locator text and a typed value
\* are any non-empty text
InitRoundTrip ==
  /\ SessIdle
  /\ EquivIdle
  /\ RecIdle
  /\ TabIdle
  /\ BgIdle
  /\ \E route \in Routes, s \in QuotedTexts :
       /\ route = "check" => trim(s) = s
       /\ lib = [fn |-> "none", input |-> [route |-> route, text |-> s], out |-> <<>>]

NextRoundTrip == RecordAndParse

SpecRoundTrip == InitRoundTrip /\ [][NextRoundTrip]_vars

\* C40: parsing the line the recorder emits for a text gives back that exact
\* text as one argument, whatever characters the text holds.
QuotedTextRoundTrips ==
  lib.fn = "roundTrip" =>
    /\ ~lib.out.parsed.null
    /\ lib.out.parsed.command = commandWord(lib.input.route)
    /\ lib.out.parsed.args = recordedArgs(lib.input.route, lib.input.text)

\* the round trip for the texts that hold no double quote
UnquotedTextRoundTrips ==
  (lib.fn = "roundTrip" /\ \A k \in 1..Len(lib.input.text) : lib.input.text[k] # "\"") =>
    /\ ~lib.out.parsed.null
    /\ lib.out.parsed.args = recordedArgs(lib.input.route, lib.input.text)

====
